---------------------------- MODULE Spec2Model ----------------------------
(***************************************************************************)
(* Segment timing and alignment correction of the lesson generator:       *)
(*   - AudioStitcher            (src/src/services/stitcher.py)             *)
(*   - AlignmentService         (src/src/services/aligner.py)              *)
(*   - LessonPipeline.generate  (src/src/pipeline/lesson_pipeline.py)      *)
(*   - LessonPipeline._calculate_quality_score (the same file)            *)
(*   - AlignmentService._load_model under concurrent callers of align      *)
(*   - format_timestamp, _parse_timestamp, generate_srt, parse_srt         *)
(*                              (src/src/utils/srt.py)                     *)
(* Each component has a specification of its own (SpecStitch, SpecAlign,   *)
(* SpecPipeline, SpecQuality, SpecLoad, SpecTimestamp, SpecSrt); the       *)
(* variables of the other components stay idle.                            *)
(* Times are integers in milliseconds, as in the code.  An audio buffer    *)
(* (pydub AudioSegment) is a sequence of chunks, each with its length in   *)
(* milliseconds: len() of the buffer is the sum of the chunk lengths.      *)
(***************************************************************************)
EXTENDS Integers, Sequences, FiniteSets, TLC

VARIABLES
    \* ---- AudioStitcher ----
    st_pc,                 \* "call" | "loop" | "normalize" | "done"
    audio_data,            \* stitch_from_bytes argument: seq of [line_id, audio, pause_after_ms]
    initial_silence_ms,    \* AudioStitcher.initial_silence_ms
    default_pause_ms,      \* AudioStitcher.default_pause_ms
    audio_segments,        \* list[AudioSegmentInfo] built by stitch_from_bytes
    pauses,                \* list of pauses built by stitch_from_bytes
    st_i,                  \* loop index i of stitch (1-based)
    combined,              \* the output buffer, a sequence of chunks
    current_position_ms,   \* the timing cursor
    normalize_dbfs,        \* AudioStitcher.normalize_dbfs: "None" or a target level
    segments,              \* the segment table being built
    stitch_result,         \* StitchResult returned by stitch
    \* ---- AlignmentService ----
    al_pc,                 \* "call" | "load" | "transcribe" | "match" | "done"
    enabled,               \* config.enabled
    drift_threshold_ms,    \* config.drift_threshold_ms
    self_model,            \* AlignmentService._model: "None" | "whisper"
    load_calls,            \* number of whisper.load_model calls
    transcribe_calls,      \* number of model.transcribe calls
    al_segments,           \* align argument segments: seq of [line_id, start_ms, end_ms]
    texts,                 \* align argument texts: line_id -> text (a sequence of characters)
    word_timings,          \* words extracted from the transcription
    word_idx,              \* cursor into word_timings (0-based, as in the code)
    al_k,                  \* position of the segment _match_segments is at (1-based)
    aligned,               \* list of AlignedSegment built by _match_segments
    match_log,             \* per matched line: the cursor before/after and the candidate
    alignment_result,      \* AlignmentResult returned by align
    al_raised,             \* what raised inside the try block: "none" | "load" | "transcribe"
    \* ---- LessonPipeline ----
    pl_pc,                 \* "validate" | "synth" | "check" | "stitch" | "align" | "output" | "returned" | "raised"
    script_lines,          \* parsed.lines: sequence of line ids
    max_attempts,          \* config.retry.max_attempts
    worker_loaded,         \* tts_worker._loaded
    pl_line,               \* index of the line _synthesize_with_retry is at
    pl_attempt,            \* calls of synthesize_line made for that line so far
    pl_result,             \* result of the last call for that line ("none" | "ok" | "failed")
    call_log,              \* per line index: the outcomes of its calls, in order
    synthesis_results,     \* list of SynthesisResult: [line_id, success]
    pl_error,              \* the exception generate raised, if any
    stitch_invoked,        \* number of stitcher.stitch calls
    align_invoked,         \* number of aligner.align calls
    srt_written,           \* save_srt was called
    timeline_written,      \* the timeline JSON was written
    pl_provisional,        \* stitch_result.segments: seq of [line_id, start_ms, end_ms]
    pl_alignment,          \* alignment_result, as returned by aligner.align
    pl_segments,           \* the final segments generate builds
    pl_output,             \* the LessonOutput generate returns
    \* ---- LessonPipeline._calculate_quality_score ----
    qs_pc,                 \* "call" | "done"
    qs_segments,           \* alignment.segments: seq of [confidence, drift_ms]
    quality_score,         \* the score returned, an exact fraction [num, den]
    \* ---- one AlignmentService shared by concurrent callers of align ----
    ld_pc,                 \* per caller: "idle" | "check" | "loading" | "assign" | "transcribe"
    ld_calls,              \* per caller: align calls entered so far
    ld_model,              \* self._model: 0 is None, k > 0 the k-th instance loaded
    ld_loads,              \* number of whisper.load_model calls that returned a model
    ld_local,              \* per caller: the value whisper.load_model returned to it
    ld_used,               \* per caller: the instances its transcribe calls ran on
    \* ---- utils/srt.py: format_timestamp and _parse_timestamp ----
    ts_pc,                 \* "format" | "parse" | "done"
    ts_ms,                 \* the argument of format_timestamp
    ts_text,               \* the string format_timestamp returned
    ts_parsed,             \* what _parse_timestamp returned for that string
    \* ---- utils/srt.py: generate_srt and parse_srt ----
    sr_pc,                 \* "generate" | "parse" | "done"
    sr_segments,           \* the argument of generate_srt: seq of [text, start_ms, end_ms]
    sr_content,            \* the string generate_srt returned
    sr_parsed,             \* what parse_srt returned for that string, or that it raised
    \* ---- ScriptValidator.validate ----
    vd_pc,                 \* "call" | "lines" | "done"
    vd_script,             \* the Script validated: [lesson_id, title, lines]
    vd_i,                  \* index of the line the loop is at
    seen_ids,              \* the ids of the lines the loop has passed
    vd_errors,             \* errors: seq of [line, id, what]; line 0 is the script itself
    \* ---- Pipeline (src/pipeline.py) with its Synthesizer and AudioStitcher ----
    gn_pc,                 \* "idle" | "validate" | "from_script" | "synth" | "retry" | "export" | "returned"
    gn_runs,               \* calls of generate / generate_from_script made on the instance
    gn_entry,              \* "generate" | "generate_from_script": how the run was entered
    gn_script,             \* the script of the run: [lesson_id, title, lines, settings]
    max_retries,           \* self.synthesizer.max_retries
    stitcher_initial_silence_ms,   \* self.stitcher.initial_silence_ms
    stitcher_default_pause_ms,     \* self.stitcher.default_pause_ms
    gn_i,                  \* synthesize_script: index of the line being synthesized
    attempts,              \* synthesize_line: attempts
    last_error,            \* synthesize_line: last_error
    engine_calls,          \* engine.synthesize calls of the run: seq of [line, text, voice, emotion, speed, success]
    gn_results,            \* synthesize_script: results, seq of [line_id, attempts]
    gn_stitched,           \* what stitch_from_bytes was run with and returned, or GenNone
    gn_exports,            \* number of exporter calls of the run (audio, srt, timeline)
    gn_result,             \* the PipelineResult returned, or GenNone
    \* ---- _match_segments: the accept-or-keep decision on a pair of boundary deltas ----
    dc_pc,                 \* "deltas" | "negated" | "done"
    dc_start_drift,        \* start_drift = best_start_ms - seg.start_ms
    dc_end_drift,          \* end_drift = best_end_ms - seg.end_ms
    dc_threshold,          \* self.config.drift_threshold_ms
    dc_decision,           \* the decision for (start_drift, end_drift)
    dc_negated             \* the decision for (-start_drift, -end_drift)

stitchVars == <<st_pc, audio_data, initial_silence_ms, default_pause_ms, normalize_dbfs,
                audio_segments, pauses, st_i, combined, current_position_ms, segments,
                stitch_result>>
alignVars == <<al_pc, enabled, drift_threshold_ms, self_model, load_calls, transcribe_calls,
               al_segments, texts, word_timings, word_idx, al_k, aligned, match_log,
               alignment_result, al_raised>>
pipeVars == <<pl_pc, script_lines, max_attempts, worker_loaded, pl_line, pl_attempt,
              pl_result, call_log, synthesis_results, pl_error,
              stitch_invoked, align_invoked, srt_written, timeline_written,
              pl_provisional, pl_alignment, pl_segments, pl_output>>
qualVars == <<qs_pc, qs_segments, quality_score>>
loadVars == <<ld_pc, ld_calls, ld_model, ld_loads, ld_local, ld_used>>
stampVars == <<ts_pc, ts_ms, ts_text, ts_parsed>>
srtVars == <<sr_pc, sr_segments, sr_content, sr_parsed>>
valVars == <<vd_pc, vd_script, vd_i, seen_ids, vd_errors>>
genVars == <<gn_pc, gn_runs, gn_entry, gn_script, max_retries, stitcher_initial_silence_ms,
             stitcher_default_pause_ms, gn_i, attempts, last_error, engine_calls, gn_results,
             gn_stitched, gn_exports, gn_result>>
decVars == <<dc_pc, dc_start_drift, dc_end_drift, dc_threshold, dc_decision, dc_negated>>
utilVars == <<qualVars, loadVars, stampVars, srtVars, valVars, genVars, decVars>>
vars == <<stitchVars, alignVars, pipeVars, utilVars>>

----------------------------------------------------------------------------
(* Generic helpers *)

RECURSIVE SumSeq(_)
SumSeq(s) == IF s = <<>> THEN 0 ELSE Head(s) + SumSeq(Tail(s))

Abs(x) == IF x < 0 THEN -x ELSE x

Min(a, b) == IF a < b THEN a ELSE b

\* Sequences over S of length at most n
SeqsUpTo(S, n) == UNION {[1..k -> S] : k \in 0..n}

----------------------------------------------------------------------------
(* Bounds and input sets *)

MaxLines == 3

\* len(audio) of a rendered line, in ms
AudioLens == {0, 700, 1000}

\* a rendered line: its length and the near-silence detect_leading_silence finds at
\* its start and at its end; one rendering of 1000 ms is padded with 200 and 150 ms
Renderings ==
    {[audio |-> a, lead_ms |-> 0, tail_ms |-> 0] : a \in AudioLens}
        \cup {[audio |-> 1000, lead_ms |-> 200, tail_ms |-> 150]}

\* pause_after_ms of a line
PauseSet == {0, 400}

\* configured initial_silence_ms / default_pause_ms
InitialSilences == {0, 300}

DefaultPauses == {250}

----------------------------------------------------------------------------
(* AudioStitcher *)

NoResult == [status |-> "none"]

\* create_silence(duration_ms, sample_rate): a zero-amplitude chunk of that length
create_silence(duration_ms) ==
    [kind |-> "silence", len |-> duration_ms, line |-> 0, gain |-> "unit",
     lead_ms |-> duration_ms, tail_ms |-> duration_ms]

\* len(AudioSegment): the buffer's length in ms
AudioLen(buf) == SumSeq([c \in DOMAIN buf |-> buf[c].len])

\* load_audio_bytes(audio_bytes, fmt): the decoded audio of a line
load_audio_bytes(d) ==
    [kind |-> "audio", len |-> d.audio, line |-> d.line_id, gain |-> "unit",
     lead_ms |-> d.lead_ms, tail_ms |-> d.tail_ms]

\* trim_silence's default keep_silence, in ms
KeepSilence == 50

Max(a, b) == IF a > b THEN a ELSE b

\* utils/audio.py, trim_silence: the audio without its leading and trailing
\* near-silence, of which keep_silence ms are kept at each edge; the slice
\* segment[start_trim:duration - end_trim] is empty when the two cuts cross
trim_silence(segment) ==
    LET start_trim == Max(0, segment.lead_ms - KeepSilence)
        end_trim == Max(0, segment.tail_ms - KeepSilence)
        duration == segment.len
    IN [segment EXCEPT !.len = Max(0, (duration - end_trim) - start_trim),
                       !.lead_ms = Min(segment.lead_ms, KeepSilence),
                       !.tail_ms = Min(segment.tail_ms, KeepSilence)]

\* stitch_from_bytes, the loop building AudioSegmentInfo objects: duration_ms = len(audio)
AudioSegmentInfoOf(d) ==
    [line_id |-> d.line_id, audio |-> load_audio_bytes(d), duration_ms |-> load_audio_bytes(d).len]

\* stitch: "pause_ms = self.default_pause_ms; if pauses and i < len(pauses): pause_ms = pauses[i]"
PauseMs(ps, i, dflt) == IF Len(ps) > 0 /\ i <= Len(ps) THEN ps[i] ELSE dflt

\* stitch: "end_ms = start_ms + segment_info.duration_ms"
\* variant: an inclusive end, one short
EndMsMut(start_ms, duration_ms) == start_ms + duration_ms - 1
EndMs(start_ms, duration_ms) == start_ms + duration_ms

\* stitch: "if i < len(audio_segments) - 1" (0-based i), here with the 1-based index
\* variant: a pause after every segment, the last included
PauseFollowsMut(i, n) == TRUE
PauseFollows(i, n) == i < n

\* stitch, line 77: "if not audio_segments"
\* variant: the empty list not told apart
NothingToStitchMut(segs) == FALSE
NothingToStitch(segs) == segs = <<>>

\* variant: a normalization that drops the end of the buffer
normalize_audio_cut(buf) ==
    [c \in 1..(Len(buf) - 1) |-> [buf[c] EXCEPT !.gain = "target"]]

\* normalize_audio: segment.apply_gain(target - segment.dBFS), one gain for the whole
\* buffer; the samples are scaled, their number is not changed
normalize_audio(buf) == [c \in DOMAIN buf |-> [buf[c] EXCEPT !.gain = "target"]]

\* line ids of a script are unique (the validator rejects duplicates); they need not
\* equal the position of the line
IdSchemes(n) == {[k \in 1..n |-> k], [k \in 1..n |-> n + 1 - k]}

StitchInputs ==
    UNION {UNION {{[k \in 1..n |-> [line_id |-> ids[k], audio |-> ap[k][1].audio,
                                   lead_ms |-> ap[k][1].lead_ms,
                                   tail_ms |-> ap[k][1].tail_ms,
                                   pause_after_ms |-> ap[k][2]]] :
                   ap \in [1..n -> Renderings \X PauseSet]} :
                  ids \in IdSchemes(n)} :
           n \in 0..MaxLines}

StitchIdle ==
    /\ st_pc = "idle"
    /\ audio_data = <<>>
    /\ initial_silence_ms = 0
    /\ default_pause_ms = 0
    /\ normalize_dbfs = "None"
    /\ audio_segments = <<>>
    /\ pauses = <<>>
    /\ st_i = 0
    /\ combined = <<>>
    /\ current_position_ms = 0
    /\ segments = <<>>
    /\ stitch_result = NoResult

InitStitch ==
    /\ st_pc = "call"
    /\ audio_data \in StitchInputs
    /\ initial_silence_ms \in InitialSilences
    /\ default_pause_ms \in DefaultPauses
    /\ normalize_dbfs \in {"None", "-16.0"}
    /\ audio_segments = <<>>
    /\ pauses = <<>>
    /\ st_i = 0
    /\ combined = <<>>
    /\ current_position_ms = 0
    /\ segments = <<>>
    /\ stitch_result = NoResult

\* stitch_from_bytes (lines 144-161) and the head of stitch (lines 77-88)
StitchFromBytes ==
    /\ st_pc = "call"
    /\ audio_segments' = [k \in DOMAIN audio_data |-> AudioSegmentInfoOf(audio_data[k])]
    /\ pauses' = [k \in DOMAIN audio_data |-> audio_data[k].pause_after_ms]
    /\ IF NothingToStitch(audio_data)
       THEN /\ stitch_result' = [status |-> "ok", audio |-> <<>>, segments |-> <<>>,
                                 total_duration_ms |-> 0]
            /\ st_pc' = "done"
            /\ UNCHANGED <<combined, current_position_ms, st_i>>
       ELSE /\ combined' = <<create_silence(initial_silence_ms)>>
            /\ current_position_ms' = initial_silence_ms
            /\ st_i' = 1
            /\ st_pc' = "loop"
            /\ UNCHANGED stitch_result
    /\ segments' = <<>>
    /\ UNCHANGED <<audio_data, initial_silence_ms, default_pause_ms, normalize_dbfs>>
    /\ UNCHANGED <<alignVars, pipeVars, utilVars>>

\* one iteration of the loop of stitch (lines 90-119)
StitchStep ==
    /\ st_pc = "loop"
    /\ st_i <= Len(audio_segments)
    /\ LET segment_info == audio_segments[st_i]
           pause_ms == PauseMs(pauses, st_i, default_pause_ms)
           start_ms == current_position_ms
           end_ms == EndMs(start_ms, segment_info.duration_ms)
           follows == PauseFollows(st_i, Len(audio_segments))
       IN /\ segments' = Append(segments,
                            [id |-> segment_info.line_id, start_ms |-> start_ms,
                             end_ms |-> end_ms,
                             audio_duration_ms |-> segment_info.duration_ms])
          /\ combined' = IF follows
                         THEN combined \o <<segment_info.audio, create_silence(pause_ms)>>
                         ELSE Append(combined, segment_info.audio)
          /\ current_position_ms' = IF follows THEN end_ms + pause_ms ELSE end_ms
    /\ st_i' = st_i + 1
    /\ st_pc' = IF st_i = Len(audio_segments) THEN "normalize" ELSE "loop"
    /\ UNCHANGED <<audio_data, initial_silence_ms, default_pause_ms, normalize_dbfs, audio_segments,
                   pauses, stitch_result>>
    /\ UNCHANGED <<alignVars, pipeVars, utilVars>>

\* the tail of stitch (lines 121-129): normalize and return
StitchReturn ==
    /\ st_pc = "normalize"
    /\ combined' = IF normalize_dbfs # "None" THEN normalize_audio(combined) ELSE combined
    /\ stitch_result' = [status |-> "ok", audio |-> combined', segments |-> segments,
                         total_duration_ms |-> AudioLen(combined')]
    /\ st_pc' = "done"
    /\ UNCHANGED <<audio_data, initial_silence_ms, default_pause_ms, normalize_dbfs, audio_segments,
                   pauses, st_i, current_position_ms, segments>>
    /\ UNCHANGED <<alignVars, pipeVars, utilVars>>

NextStitch == StitchFromBytes \/ StitchStep \/ StitchReturn

----------------------------------------------------------------------------
(* AlignmentService *)

MaxSegs == 2

MaxWords == 3

\* texts a line can have, as sequences of characters (" " is the whitespace):
\* whitespace only, one token, two tokens
TextPool == {<<" ">>, <<"a">>, <<"a", " ", "B">>}

\* config.drift_threshold_ms (50..500, default 200)
Thresholds == {50, 200}

\* confidence is kept in tenths: 10 is 1.0, 9 is 0.9
ConfidenceFull == 10
ConfidenceCorrected == 9

\* the provisional timing the stitcher gives 1000 ms lines with 400 ms pauses after a
\* 300 ms lead-in: (300,1300), (1700,2700), (3100,4100), ...
ProvisionalTables ==
    UNION {{[k \in 1..n |-> [line_id |-> ids[k], start_ms |-> 300 + (k - 1) * 1400,
                             end_ms |-> 1300 + (k - 1) * 1400]] :
            ids \in IdSchemes(n)} :
           n \in 0..MaxSegs}

\* words the transcription can report.  Against the first line (300,1300) the first
\* three give the drifts 200 (exactly the default threshold), 201 and -201 (the floor
\* of -401/2); against the second line (1700,2700) the last gives the drift 201
WordPool == {[start_ms |-> 500, end_ms |-> 1500],
             [start_ms |-> 500, end_ms |-> 1503],
             [start_ms |-> 100, end_ms |-> 1099],
             [start_ms |-> 1900, end_ms |-> 2903]}

Transcripts == SeqsUpTo(WordPool, MaxWords)

TextMaps(segs) ==
    LET ids == {segs[k].line_id : k \in DOMAIN segs}
    IN UNION {[D -> TextPool] : D \in SUBSET ids}

\* texts.get(line_id, "")
TextsGet(t, line_id) == IF line_id \in DOMAIN t THEN t[line_id] ELSE <<>>

\* str.lower()
Lower(text) == [c \in DOMAIN text |-> IF text[c] = "B" THEN "b" ELSE text[c]]

\* str.split(): the maximal runs of non-whitespace characters, in order
RECURSIVE SplitFrom(_, _, _)
SplitFrom(text, cur, acc) ==
    IF text = <<>>
    THEN IF cur = <<>> THEN acc ELSE Append(acc, cur)
    ELSE IF Head(text) = " "
         THEN SplitFrom(Tail(text), <<>>, IF cur = <<>> THEN acc ELSE Append(acc, cur))
         ELSE SplitFrom(Tail(text), Append(cur, Head(text)), acc)

Split(text) == SplitFrom(text, <<>>, <<>>)

\* "num_words = len(text.lower().split())"
\* variant: the characters counted instead of the tokens
NumWordsMut(text) == Len(text)
NumWords(text) == Len(Split(Lower(text)))

\* "end_word_idx = min(word_idx + num_words, len(word_timings)) - 1" (0-based)
\* variant: the "- 1" forgotten
EndWordIdxMut(idx, num_words, n) == Min(idx + num_words, n)
EndWordIdx(idx, num_words, n) == Min(idx + num_words, n) - 1

\* "if word_idx < len(word_timings)": words are left for the line
\* variant: "if word_timings", the transcript not empty
WordsRemainMut(idx, n) == idx < n \/ n > 0
WordsRemain(idx, n) == idx < n

\* "avg_drift = (start_drift + end_drift) // 2": floor division
\* variant: division truncating toward zero
AvgDriftMut(start_drift, end_drift) ==
    LET t == start_drift + end_drift
    IN IF t < 0 THEN -((-t) \div 2) ELSE t \div 2
AvgDrift(start_drift, end_drift) == (start_drift + end_drift) \div 2

\* "use_aligned = abs(avg_drift) > self.config.drift_threshold_ms"
\* variant: a non-strict comparison
UseAlignedMut(avg_drift, threshold) == Abs(avg_drift) >= threshold
UseAligned(avg_drift, threshold) == Abs(avg_drift) > threshold

\* the AlignedSegment of the disabled path, of the fallback path and of a line without
\* tokens: provisional timing, drift 0, the default confidence 1.0
\* variant: aligned_end_ms taken from start_ms
EchoSegmentMut(seg, text) ==
    [line_id |-> seg.line_id, original_start_ms |-> seg.start_ms,
     original_end_ms |-> seg.end_ms, aligned_start_ms |-> seg.start_ms,
     aligned_end_ms |-> seg.start_ms, drift_ms |-> 0,
     confidence |-> ConfidenceFull, text |-> text]
EchoSegment(seg, text) ==
    [line_id |-> seg.line_id, original_start_ms |-> seg.start_ms,
     original_end_ms |-> seg.end_ms, aligned_start_ms |-> seg.start_ms,
     aligned_end_ms |-> seg.end_ms, drift_ms |-> 0,
     confidence |-> ConfidenceFull, text |-> text]

\* _match_segments, lines 207-219: the AlignedSegment of a line with tokens
\* variant: the original_* fields overwritten with the timing that was adopted
MatchedSegmentMut(seg, text, best_start_ms, best_end_ms, avg_drift, use_aligned) ==
    [line_id |-> seg.line_id,
     original_start_ms |-> IF use_aligned THEN best_start_ms ELSE seg.start_ms,
     original_end_ms |-> IF use_aligned THEN best_end_ms ELSE seg.end_ms,
     aligned_start_ms |-> IF use_aligned THEN best_start_ms ELSE seg.start_ms,
     aligned_end_ms |-> IF use_aligned THEN best_end_ms ELSE seg.end_ms,
     drift_ms |-> avg_drift,
     confidence |-> IF use_aligned THEN ConfidenceCorrected ELSE ConfidenceFull,
     text |-> text]
MatchedSegment(seg, text, best_start_ms, best_end_ms, avg_drift, use_aligned) ==
    [line_id |-> seg.line_id, original_start_ms |-> seg.start_ms,
     original_end_ms |-> seg.end_ms,
     aligned_start_ms |-> IF use_aligned THEN best_start_ms ELSE seg.start_ms,
     aligned_end_ms |-> IF use_aligned THEN best_end_ms ELSE seg.end_ms,
     drift_ms |-> avg_drift,
     confidence |-> IF use_aligned THEN ConfidenceCorrected ELSE ConfidenceFull,
     text |-> text]

EchoAll(segs, t) == [k \in DOMAIN segs |-> EchoSegment(segs[k], TextsGet(t, segs[k].line_id))]

\* "total_drift = sum(abs(seg.drift_ms) for seg in aligned_segments)"
\* variant: signed drifts summed
TotalDriftMut(al) == SumSeq([k \in DOMAIN al |-> al[k].drift_ms])
TotalDrift(al) == SumSeq([k \in DOMAIN al |-> Abs(al[k].drift_ms)])

\* "needs_review = any(abs(seg.drift_ms) > threshold for seg in aligned_segments)"
NeedsReview(al, threshold) == \E k \in DOMAIN al : Abs(al[k].drift_ms) > threshold

AlignIdle ==
    /\ al_pc = "idle"
    /\ enabled = FALSE
    /\ drift_threshold_ms = 0
    /\ self_model = "None"
    /\ load_calls = 0
    /\ transcribe_calls = 0
    /\ al_segments = <<>>
    /\ texts = <<>>
    /\ word_timings = <<>>
    /\ word_idx = 0
    /\ al_k = 0
    /\ aligned = <<>>
    /\ match_log = <<>>
    /\ alignment_result = NoResult
    /\ al_raised = "none"

InitAlign ==
    /\ al_pc = "call"
    /\ enabled \in BOOLEAN
    /\ drift_threshold_ms \in Thresholds
    /\ self_model = "None"
    /\ load_calls = 0
    /\ transcribe_calls = 0
    /\ al_segments \in ProvisionalTables
    /\ texts \in TextMaps(al_segments)
    /\ word_timings = <<>>
    /\ word_idx = 0
    /\ al_k = 0
    /\ aligned = <<>>
    /\ match_log = <<>>
    /\ alignment_result = NoResult
    /\ al_raised = "none"

alignInputs == <<enabled, drift_threshold_ms, al_segments, texts>>

\* align, lines 77-93: alignment disabled, the provisional timings are returned
AlignDisabled ==
    /\ al_pc = "call"
    /\ ~enabled
    /\ alignment_result' = [status |-> "returned", success |-> TRUE,
                            segments |-> EchoAll(al_segments, texts),
                            total_drift_ms |-> 0, needs_review |-> FALSE,
                            error |-> "None"]
    /\ al_pc' = "done"
    /\ UNCHANGED <<alignInputs, self_model, load_calls, transcribe_calls, word_timings,
                   word_idx, al_k, aligned, match_log>>
    /\ UNCHANGED al_raised
    /\ UNCHANGED <<stitchVars, pipeVars, utilVars>>

\* align, line 95: alignment enabled, the try block is entered
AlignEnabled ==
    /\ al_pc = "call"
    /\ enabled
    /\ al_pc' = "load"
    /\ UNCHANGED <<alignInputs, self_model, load_calls, transcribe_calls, word_timings,
                   word_idx, al_k, aligned, match_log, alignment_result>>
    /\ UNCHANGED al_raised
    /\ UNCHANGED <<stitchVars, pipeVars, utilVars>>

\* the except branch of align, lines 125-143
\* variant: the segments left at their default, the empty list
FallbackMut(err) ==
    [status |-> "returned", success |-> FALSE, segments |-> <<>>,
     total_drift_ms |-> 0, needs_review |-> FALSE, error |-> err]
FallbackOf(segs, t, err) ==
    [status |-> "returned", success |-> FALSE, segments |-> EchoAll(segs, t),
     total_drift_ms |-> 0, needs_review |-> FALSE, error |-> err]
Fallback(err) == FallbackOf(al_segments, texts, err)

\* _load_model, lines 49-55: the model is loaded unless it is cached
LoadModelOk ==
    /\ al_pc = "load"
    /\ IF self_model = "None"
       THEN self_model' = "whisper" /\ load_calls' = load_calls + 1
       ELSE UNCHANGED <<self_model, load_calls>>
    /\ al_pc' = "transcribe"
    /\ UNCHANGED <<alignInputs, transcribe_calls, word_timings, word_idx, al_k, aligned,
                   match_log, alignment_result>>
    /\ UNCHANGED al_raised
    /\ UNCHANGED <<stitchVars, pipeVars, utilVars>>

\* _load_model raises (import whisper or whisper.load_model fails): caught by align
LoadModelRaises ==
    /\ al_pc = "load"
    /\ self_model = "None"
    /\ load_calls' = load_calls + 1
    /\ al_raised' = "load"
    /\ alignment_result' = Fallback("load_model failed")
    /\ al_pc' = "done"
    /\ UNCHANGED <<alignInputs, self_model, transcribe_calls, word_timings, word_idx, al_k,
                   aligned, match_log>>
    /\ UNCHANGED <<stitchVars, pipeVars, utilVars>>

\* self._model.transcribe and _extract_word_timings, lines 99-106
TranscribeOk ==
    /\ al_pc = "transcribe"
    /\ transcribe_calls' = transcribe_calls + 1
    /\ \E w \in Transcripts : word_timings' = w
    /\ word_idx' = 0
    /\ al_k' = 1
    /\ aligned' = <<>>
    /\ match_log' = <<>>
    /\ al_pc' = "match"
    /\ UNCHANGED <<alignInputs, self_model, load_calls, alignment_result>>
    /\ UNCHANGED al_raised
    /\ UNCHANGED <<stitchVars, pipeVars, utilVars>>

\* the transcription call raises: caught by align
TranscribeRaises ==
    /\ al_pc = "transcribe"
    /\ transcribe_calls' = transcribe_calls + 1
    /\ al_raised' = "transcribe"
    /\ alignment_result' = Fallback("transcribe failed")
    /\ al_pc' = "done"
    /\ UNCHANGED <<alignInputs, self_model, load_calls, word_timings, word_idx, al_k,
                   aligned, match_log>>
    /\ UNCHANGED <<stitchVars, pipeVars, utilVars>>

\* one iteration of the loop of _match_segments, lines 169-219
MatchStep ==
    /\ al_pc = "match"
    /\ al_k <= Len(al_segments)
    /\ LET seg == al_segments[al_k]
           text == TextsGet(texts, seg.line_id)
           num_words == NumWords(text)
           n == Len(word_timings)
           has_words == WordsRemain(word_idx, n)
           start_word_idx == word_idx
           end_word_idx == EndWordIdx(word_idx, num_words, n)
           best_start_ms == IF has_words /\ start_word_idx < n
                            THEN word_timings[start_word_idx + 1].start_ms
                            ELSE seg.start_ms
           best_end_ms == IF has_words /\ end_word_idx < n
                          THEN word_timings[end_word_idx + 1].end_ms
                          ELSE seg.end_ms
           new_idx == IF has_words THEN end_word_idx + 1 ELSE word_idx
           start_drift == best_start_ms - seg.start_ms
           end_drift == best_end_ms - seg.end_ms
           avg_drift == AvgDrift(start_drift, end_drift)
           use_aligned == UseAligned(avg_drift, drift_threshold_ms)
       IN IF num_words = 0
          THEN /\ aligned' = Append(aligned, EchoSegment(seg, text))
               /\ match_log' = Append(match_log,
                      [num_words |-> 0, idx_before |-> word_idx, idx_after |-> word_idx,
                       best_start_ms |-> seg.start_ms, best_end_ms |-> seg.end_ms])
               /\ UNCHANGED word_idx
          ELSE /\ aligned' = Append(aligned,
                      MatchedSegment(seg, text, best_start_ms, best_end_ms, avg_drift,
                                     use_aligned))
               /\ match_log' = Append(match_log,
                      [num_words |-> num_words, idx_before |-> word_idx, idx_after |-> new_idx,
                       best_start_ms |-> best_start_ms, best_end_ms |-> best_end_ms])
               /\ word_idx' = new_idx
    /\ al_k' = al_k + 1
    /\ UNCHANGED <<alignInputs, self_model, load_calls, transcribe_calls, word_timings,
                   al_pc, alignment_result>>
    /\ UNCHANGED al_raised
    /\ UNCHANGED <<stitchVars, pipeVars, utilVars>>

\* align, lines 111-123: aggregate and return
AlignReturn ==
    /\ al_pc = "match"
    /\ al_k > Len(al_segments)
    /\ alignment_result' = [status |-> "returned", success |-> TRUE, segments |-> aligned,
                            total_drift_ms |-> TotalDrift(aligned),
                            needs_review |-> NeedsReview(aligned, drift_threshold_ms),
                            error |-> "None"]
    /\ al_pc' = "done"
    /\ UNCHANGED <<alignInputs, self_model, load_calls, transcribe_calls, word_timings,
                   word_idx, al_k, aligned, match_log>>
    /\ UNCHANGED al_raised
    /\ UNCHANGED <<stitchVars, pipeVars, utilVars>>

NextAlign ==
    \/ AlignDisabled \/ AlignEnabled
    \/ LoadModelOk \/ LoadModelRaises
    \/ TranscribeOk \/ TranscribeRaises
    \/ MatchStep \/ AlignReturn

----------------------------------------------------------------------------
(* LessonPipeline._calculate_quality_score *)

\* longest segment list scored
MaxScored == 2

\* confidences in tenths (0.0, 0.5, 0.9, 1.0) and drifts in ms, around the 250 ms at
\* which the penalty reaches its cap of 0.5
Confidences == {0, 5, ConfidenceCorrected, ConfidenceFull}
Drifts == {-1000, -250, -249, 0, 100, 250, 251, 600}

ScoredSegments == SeqsUpTo([confidence : Confidences, drift_ms : Drifts], MaxScored)

\* the score is a Python float; it is kept here as the exact fraction num/den
NoScore == [num |-> 0, den |-> 0]
One == [num |-> 1, den |-> 1]
Leq(a, b) == a.num * b.den <= b.num * a.den

\* "drift_penalty = min(abs(seg.drift_ms) / 500.0, 0.5)", in units of 1/500
\* variant: the cap of 0.5 missing
DriftPenaltyMut(drift_ms) == Abs(drift_ms)
DriftPenalty(drift_ms) == Min(Abs(drift_ms), 250)

\* "segment_score = seg.confidence * (1.0 - drift_penalty)", in units of 1/5000
\* variant: the penalty added
SegmentScoreMut(seg) == seg.confidence * (500 + DriftPenalty(seg.drift_ms))
SegmentScore(seg) == seg.confidence * (500 - DriftPenalty(seg.drift_ms))

\* _calculate_quality_score: 1.0 without segments, else total_score / len(segments)
calculate_quality_score(segs) ==
    IF segs = <<>>
    THEN One
    ELSE [num |-> SumSeq([k \in DOMAIN segs |-> SegmentScore(segs[k])]),
          den |-> 5000 * Len(segs)]

QualIdle ==
    /\ qs_pc = "idle"
    /\ qs_segments = <<>>
    /\ quality_score = NoScore

InitQual ==
    /\ qs_pc = "call"
    /\ qs_segments \in ScoredSegments
    /\ quality_score = NoScore

\* one call of _calculate_quality_score(alignment)
CalculateQualityScore ==
    /\ qs_pc = "call"
    /\ quality_score' = calculate_quality_score(qs_segments)
    /\ qs_pc' = "done"
    /\ UNCHANGED qs_segments
    /\ UNCHANGED <<stitchVars, alignVars, pipeVars, loadVars, stampVars, srtVars, valVars, genVars, decVars>>

NextQual == CalculateQualityScore

----------------------------------------------------------------------------
(* LessonPipeline.generate *)

MaxAttempts == 3

NoError == [type |-> "None"]

\* scripts have at least one line (ScriptInput.lines, min_length = 1)
Scripts == UNION {IdSchemes(n) : n \in 1..MaxLines}

\* "for attempt in range(1, self.config.retry.max_attempts)": after calls_made calls
\* of which none succeeded, another call is made iff calls_made < max_attempts
\* variant: range(1, max_attempts + 1)
RetryAllowedMut(calls_made, limit) == calls_made <= limit
RetryAllowed(calls_made, limit) == calls_made \in 1..(limit - 1)

\* _synthesize_with_retry, lines 199-213: "for line in script.lines" has gone through
\* every line (line is the 1-based index of the line being synthesized)
\* variant: the loop left one line early
AllLinesDoneMut(line, n) == line >= n
AllLinesDone(line, n) == line > n

\* generate, lines 144-148: whatever align returns, the outputs are generated next
\* variant: an unsuccessful alignment raises, as an unsuccessful stitch does
AfterAlignMut(alignment) == IF alignment.success THEN "output" ELSE "raised"
AfterAlign(alignment) == "output"

\* stitch_result.segments of a successful stitch: 1000 ms lines, 400 ms pauses after a
\* 300 ms lead-in
StitchedTable(lines) ==
    [k \in DOMAIN lines |-> [line_id |-> lines[k], start_ms |-> 300 + (k - 1) * 1400,
                             end_ms |-> 1300 + (k - 1) * 1400]]

\* generate, line 142: "texts = {line.id: line.text for line in parsed.lines}"
LineTexts(lines) == [id \in {lines[k] : k \in DOMAIN lines} |-> <<"a">>]

\* what aligner.align can return for a table: the fallback of a failed alignment, the
\* provisional timings confirmed, or the first line corrected by a drift of 250 ms
AlignOutcomes(segs, t) ==
    {FallbackOf(segs, t, "alignment failed"),
     [status |-> "returned", success |-> TRUE, segments |-> EchoAll(segs, t),
      total_drift_ms |-> 0, needs_review |-> FALSE, error |-> "None"],
     [status |-> "returned", success |-> TRUE,
      segments |-> [k \in DOMAIN segs |->
                       IF k = 1
                       THEN MatchedSegment(segs[k], TextsGet(t, segs[k].line_id),
                                           segs[k].start_ms + 250, segs[k].end_ms + 251,
                                           250, TRUE)
                       ELSE EchoSegment(segs[k], TextsGet(t, segs[k].line_id))],
      total_drift_ms |-> 250, needs_review |-> TRUE, error |-> "None"]}

\* generate, lines 154-163: the Segment built from an AlignedSegment
FinalSegment(al) ==
    [id |-> al.line_id, text |-> al.text, start_ms |-> al.aligned_start_ms,
     end_ms |-> al.aligned_end_ms,
     audio_duration_ms |-> al.aligned_end_ms - al.aligned_start_ms,
     confidence |-> al.confidence]

\* Segment's field constraints (models/script.py): start_ms >= 0, audio_duration_ms >= 0
SegmentValid(seg) == seg.start_ms >= 0 /\ seg.audio_duration_ms >= 0

\* "failed = [r for r in synthesis_results if not r.success]"
\* variant: only the last result is looked at
FailedMut(results) ==
    IF results # <<>> /\ ~results[Len(results)].success
    THEN <<results[Len(results)]>> ELSE <<>>
Failed(results) == SelectSeq(results, LAMBDA r : ~r.success)

\* "failed_ids = [r.line_id for r in failed]"
FailedIds(results) == [k \in DOMAIN Failed(results) |-> Failed(results)[k].line_id]

PipeIdle ==
    /\ pl_pc = "idle"
    /\ script_lines = <<>>
    /\ max_attempts = 0
    /\ worker_loaded = FALSE
    /\ pl_line = 0
    /\ pl_attempt = 0
    /\ pl_result = "none"
    /\ call_log = <<>>
    /\ synthesis_results = <<>>
    /\ pl_error = NoError
    /\ stitch_invoked = 0
    /\ align_invoked = 0
    /\ srt_written = FALSE
    /\ timeline_written = FALSE
    /\ pl_provisional = <<>>
    /\ pl_alignment = NoResult
    /\ pl_segments = <<>>
    /\ pl_output = NoResult

InitPipe ==
    /\ pl_pc = "validate"
    /\ script_lines \in Scripts
    /\ max_attempts \in 1..MaxAttempts
    /\ worker_loaded = FALSE
    /\ pl_line = 0
    /\ pl_attempt = 0
    /\ pl_result = "none"
    /\ call_log = [k \in DOMAIN script_lines |-> <<>>]
    /\ synthesis_results = <<>>
    /\ pl_error = NoError
    /\ stitch_invoked = 0
    /\ align_invoked = 0
    /\ srt_written = FALSE
    /\ timeline_written = FALSE
    /\ pl_provisional = <<>>
    /\ pl_alignment = NoResult
    /\ pl_segments = <<>>
    /\ pl_output = NoResult

pipeInputs == <<script_lines, max_attempts>>
pipeOutputs == <<stitch_invoked, align_invoked, srt_written, timeline_written,
                 pl_provisional, pl_alignment, pl_segments, pl_output>>

\* generate, lines 109-117: the script is valid
ValidateOk ==
    /\ pl_pc = "validate"
    /\ pl_pc' = "synth"
    /\ pl_line' = 1
    /\ pl_attempt' = 0
    /\ pl_result' = "none"
    /\ UNCHANGED <<pipeInputs, worker_loaded, call_log, synthesis_results, pl_error,
                   pipeOutputs>>
    /\ UNCHANGED <<stitchVars, alignVars, utilVars>>

\* generate, lines 112-114: validation fails
ValidateFails ==
    /\ pl_pc = "validate"
    /\ pl_pc' = "raised"
    /\ pl_error' = [type |-> "PipelineError", what |-> "Validation failed", ids |-> <<>>]
    /\ UNCHANGED <<pipeInputs, worker_loaded, pl_line, pl_attempt, pl_result, call_log,
                   synthesis_results, pipeOutputs>>
    /\ UNCHANGED <<stitchVars, alignVars, utilVars>>

\* a call of synthesize_line may be made: the first call for the line (line 201), or
\* a retry (lines 204-207)
CallDue ==
    /\ pl_pc = "synth"
    /\ pl_line <= Len(script_lines)
    /\ \/ pl_attempt = 0
       \/ pl_result = "failed" /\ RetryAllowed(pl_attempt, max_attempts)

\* synthesize_line returns a SynthesisResult, successful or not
SynthesizeLine ==
    /\ CallDue
    /\ \E outcome \in {"ok", "failed"} :
          /\ pl_result' = outcome
          /\ call_log' = [call_log EXCEPT ![pl_line] = Append(@, outcome)]
    /\ pl_attempt' = pl_attempt + 1
    /\ worker_loaded' = TRUE
    /\ UNCHANGED <<pipeInputs, pl_pc, pl_line, synthesis_results, pl_error, pipeOutputs>>
    /\ UNCHANGED <<stitchVars, alignVars, utilVars>>

\* TTSWorker.synthesize_line, lines 109-110 and load_model, lines 95-97: loading the
\* model raises RuntimeError, which nothing in generate catches
SynthesizeLineRaises ==
    /\ CallDue
    /\ ~worker_loaded
    /\ call_log' = [call_log EXCEPT ![pl_line] = Append(@, "raised")]
    /\ pl_attempt' = pl_attempt + 1
    /\ pl_pc' = "raised"
    /\ pl_error' = [type |-> "RuntimeError", what |-> "Failed to load TTS model", ids |-> <<>>]
    /\ UNCHANGED <<pipeInputs, worker_loaded, pl_line, pl_result, synthesis_results,
                   pipeOutputs>>
    /\ UNCHANGED <<stitchVars, alignVars, utilVars>>

\* _synthesize_with_retry, line 211: "results.append(result)", then the next line
RecordResult ==
    /\ pl_pc = "synth"
    /\ pl_line <= Len(script_lines)
    /\ pl_attempt >= 1
    /\ pl_result = "ok" \/ ~RetryAllowed(pl_attempt, max_attempts)
    /\ synthesis_results' = Append(synthesis_results,
                                   [line_id |-> script_lines[pl_line],
                                    success |-> pl_result = "ok"])
    /\ pl_line' = pl_line + 1
    /\ pl_attempt' = 0
    /\ pl_result' = "none"
    /\ UNCHANGED <<pipeInputs, worker_loaded, pl_pc, call_log, pl_error, pipeOutputs>>
    /\ UNCHANGED <<stitchVars, alignVars, utilVars>>

\* generate, lines 121-126: the results are checked once every line was attempted
CheckFailures ==
    /\ pl_pc = "synth"
    /\ AllLinesDone(pl_line, Len(script_lines))
    /\ IF Failed(synthesis_results) # <<>>
       THEN /\ pl_pc' = "raised"
            /\ pl_error' = [type |-> "PipelineError", what |-> "Synthesis failed for lines",
                            ids |-> FailedIds(synthesis_results)]
       ELSE /\ pl_pc' = "stitch"
            /\ UNCHANGED pl_error
    /\ UNCHANGED <<pipeInputs, worker_loaded, pl_line, pl_attempt, pl_result, call_log,
                   synthesis_results, pipeOutputs>>
    /\ UNCHANGED <<stitchVars, alignVars, utilVars>>

\* generate, lines 128-138: the stitcher is called; it succeeds or reports a failure
StitchCall ==
    /\ pl_pc = "stitch"
    /\ stitch_invoked' = stitch_invoked + 1
    /\ \E success \in BOOLEAN :
          IF success
          THEN /\ pl_pc' = "align"
               /\ pl_provisional' = StitchedTable(script_lines)
               /\ UNCHANGED pl_error
          ELSE /\ pl_pc' = "raised"
               /\ pl_error' = [type |-> "PipelineError", what |-> "Stitching failed",
                               ids |-> <<>>]
               /\ UNCHANGED pl_provisional
    /\ UNCHANGED <<pipeInputs, worker_loaded, pl_line, pl_attempt, pl_result, call_log,
                   synthesis_results, align_invoked, srt_written, timeline_written,
                   pl_alignment, pl_segments, pl_output>>
    /\ UNCHANGED <<stitchVars, alignVars, utilVars>>

\* generate, lines 140-149: the aligner is called; it returns whether it succeeded or not
AlignCall ==
    /\ pl_pc = "align"
    /\ align_invoked' = align_invoked + 1
    /\ \E res \in AlignOutcomes(pl_provisional, LineTexts(script_lines)) :
          /\ pl_alignment' = res
          /\ pl_pc' = AfterAlign(res)
          /\ pl_error' = IF AfterAlign(res) = "raised"
                          THEN [type |-> "PipelineError", what |-> "Alignment failed",
                                ids |-> <<>>]
                          ELSE pl_error
    /\ UNCHANGED <<pipeInputs, worker_loaded, pl_line, pl_attempt, pl_result, call_log,
                   synthesis_results, stitch_invoked, srt_written,
                   timeline_written, pl_provisional, pl_segments, pl_output>>
    /\ UNCHANGED <<stitchVars, alignVars, utilVars>>

\* generate, lines 151-169: the final segments are built and the SRT file is saved;
\* constructing a Segment that breaks its field constraints raises ValidationError
WriteSrt ==
    /\ pl_pc = "output"
    /\ ~srt_written
    /\ LET built == [k \in DOMAIN pl_alignment.segments |->
                        FinalSegment(pl_alignment.segments[k])]
       IN IF \A k \in DOMAIN built : SegmentValid(built[k])
          THEN /\ pl_segments' = built
               /\ srt_written' = TRUE
               /\ UNCHANGED <<pl_pc, pl_error>>
          ELSE /\ pl_pc' = "raised"
               /\ pl_error' = [type |-> "ValidationError", what |-> "Segment", ids |-> <<>>]
               /\ UNCHANGED <<pl_segments, srt_written>>
    /\ UNCHANGED <<pipeInputs, worker_loaded, pl_line, pl_attempt, pl_result,
                   call_log, synthesis_results, stitch_invoked, align_invoked,
                   timeline_written, pl_provisional, pl_alignment, pl_output>>
    /\ UNCHANGED <<stitchVars, alignVars, utilVars>>

\* generate, lines 171-194: the LessonOutput is built with its quality score, the
\* timeline JSON is written and the output returned
WriteTimeline ==
    /\ pl_pc = "output"
    /\ srt_written
    /\ pl_output' = [status |-> "returned", segments |-> pl_segments,
                     quality_score |-> calculate_quality_score(pl_alignment.segments)]
    /\ timeline_written' = TRUE
    /\ pl_pc' = "returned"
    /\ UNCHANGED <<pipeInputs, worker_loaded, pl_line, pl_attempt, pl_result, call_log,
                   synthesis_results, pl_error, stitch_invoked, align_invoked, srt_written,
                   pl_provisional, pl_alignment, pl_segments>>
    /\ UNCHANGED <<stitchVars, alignVars, utilVars>>

NextPipe ==
    \/ ValidateOk \/ ValidateFails
    \/ SynthesizeLine \/ SynthesizeLineRaises \/ RecordResult \/ CheckFailures
    \/ StitchCall \/ AlignCall \/ WriteSrt \/ WriteTimeline

----------------------------------------------------------------------------
(* AlignmentService._load_model under concurrent callers of align *)

\* threads calling align on the same AlignmentService, and align calls per thread
MaxCallers == 2
MaxCalls == 2

Callers == 1..MaxCallers

LoadIdle ==
    /\ ld_pc = <<>>
    /\ ld_calls = <<>>
    /\ ld_model = 0
    /\ ld_loads = 0
    /\ ld_local = <<>>
    /\ ld_used = <<>>

\* __init__, lines 39-47: "self._model = None"; no caller is inside align
InitLoad ==
    /\ ld_pc = [c \in Callers |-> "idle"]
    /\ ld_calls = [c \in Callers |-> 0]
    /\ ld_model = 0
    /\ ld_loads = 0
    /\ ld_local = [c \in Callers |-> 0]
    /\ ld_used = [c \in Callers |-> {}]

\* align, lines 77 and 95-96: an enabled-mode call enters the try block
AlignEnter ==
    \E c \in Callers :
        /\ ld_pc[c] = "idle"
        /\ ld_calls[c] < MaxCalls
        /\ ld_calls' = [ld_calls EXCEPT ![c] = @ + 1]
        /\ ld_pc' = [ld_pc EXCEPT ![c] = "check"]
        /\ UNCHANGED <<ld_model, ld_loads, ld_local, ld_used>>
        /\ UNCHANGED <<stitchVars, alignVars, pipeVars, qualVars, stampVars, srtVars, valVars, genVars, decVars>>

\* _load_model, line 51: "if self._model is None"; nothing is held between this read
\* and the assignment of line 54
CheckModel ==
    \E c \in Callers :
        /\ ld_pc[c] = "check"
        /\ ld_pc' = [ld_pc EXCEPT ![c] = IF ld_model = 0 THEN "loading" ELSE "transcribe"]
        /\ UNCHANGED <<ld_calls, ld_model, ld_loads, ld_local, ld_used>>
        /\ UNCHANGED <<stitchVars, alignVars, pipeVars, qualVars, stampVars, srtVars, valVars, genVars, decVars>>

\* _load_model, lines 52-54: whisper.load_model("base") returns a new model
WhisperLoad ==
    \E c \in Callers :
        /\ ld_pc[c] = "loading"
        /\ ld_loads' = ld_loads + 1
        /\ ld_local' = [ld_local EXCEPT ![c] = ld_loads + 1]
        /\ ld_pc' = [ld_pc EXCEPT ![c] = "assign"]
        /\ UNCHANGED <<ld_calls, ld_model, ld_used>>
        /\ UNCHANGED <<stitchVars, alignVars, pipeVars, qualVars, stampVars, srtVars, valVars, genVars, decVars>>

\* _load_model raises; align catches it and returns the fallback (lines 125-143)
WhisperLoadRaises ==
    \E c \in Callers :
        /\ ld_pc[c] = "loading"
        /\ ld_pc' = [ld_pc EXCEPT ![c] = "idle"]
        /\ UNCHANGED <<ld_calls, ld_model, ld_loads, ld_local, ld_used>>
        /\ UNCHANGED <<stitchVars, alignVars, pipeVars, qualVars, stampVars, srtVars, valVars, genVars, decVars>>

\* _load_model, line 54: "self._model = ..." stores what this caller loaded
AssignModel ==
    \E c \in Callers :
        /\ ld_pc[c] = "assign"
        /\ ld_model' = ld_local[c]
        /\ ld_pc' = [ld_pc EXCEPT ![c] = "transcribe"]
        /\ UNCHANGED <<ld_calls, ld_loads, ld_local, ld_used>>
        /\ UNCHANGED <<stitchVars, alignVars, pipeVars, qualVars, stampVars, srtVars, valVars, genVars, decVars>>

\* align, lines 99-123: "self._model.transcribe(...)" runs on the instance the
\* attribute holds now; the call then returns
TranscribeShared ==
    \E c \in Callers :
        /\ ld_pc[c] = "transcribe"
        /\ ld_used' = [ld_used EXCEPT ![c] = @ \cup {ld_model}]
        /\ ld_pc' = [ld_pc EXCEPT ![c] = "idle"]
        /\ UNCHANGED <<ld_calls, ld_model, ld_loads, ld_local>>
        /\ UNCHANGED <<stitchVars, alignVars, pipeVars, qualVars, stampVars, srtVars, valVars, genVars, decVars>>

NextLoad ==
    \/ AlignEnter \/ CheckModel \/ WhisperLoad \/ WhisperLoadRaises
    \/ AssignModel \/ TranscribeShared

----------------------------------------------------------------------------
(* utils/srt.py: strings *)

\* A str is a sequence of one-character strings.
DigitChars == <<"0", "1", "2", "3", "4", "5", "6", "7", "8", "9">>

IsDigit(ch) == \E d \in 0..9 : DigitChars[d + 1] = ch

DigitValue(ch) == CHOOSE d \in 0..9 : DigitChars[d + 1] = ch

\* str(n) of an integer n >= 0
RECURSIVE Str(_)
Str(n) == IF n < 10 THEN <<DigitChars[n + 1]>>
          ELSE Append(Str(n \div 10), DigitChars[(n % 10) + 1])

\* the format specs 02d and 03d: zeros on the left up to a minimum width
RECURSIVE ZeroPad(_, _)
ZeroPad(str, width) == IF Len(str) >= width THEN str ELSE ZeroPad(<<"0">> \o str, width)

Whitespace == {" ", "\n"}

\* str.strip()
RECURSIVE LStrip(_)
LStrip(str) == IF str # <<>> /\ Head(str) \in Whitespace THEN LStrip(Tail(str)) ELSE str

RECURSIVE RStrip(_)
RStrip(str) ==
    IF str # <<>> /\ str[Len(str)] \in Whitespace
    THEN RStrip(SubSeq(str, 1, Len(str) - 1)) ELSE str

Strip(str) == RStrip(LStrip(str))

\* str.split(sep): the pieces between the occurrences of sep, found left to right
RECURSIVE SplitOnFrom(_, _, _, _)
SplitOnFrom(str, sep, cur, acc) ==
    IF str = <<>> THEN Append(acc, cur)
    ELSE IF Len(str) >= Len(sep) /\ SubSeq(str, 1, Len(sep)) = sep
         THEN SplitOnFrom(SubSeq(str, Len(sep) + 1, Len(str)), sep, <<>>, Append(acc, cur))
         ELSE SplitOnFrom(Tail(str), sep, Append(cur, Head(str)), acc)

SplitOn(str, sep) == SplitOnFrom(str, sep, <<>>, <<>>)

\* sep.join(parts)
RECURSIVE Join(_, _)
Join(parts, sep) ==
    IF parts = <<>> THEN <<>>
    ELSE IF Len(parts) = 1 THEN parts[1]
    ELSE parts[1] \o sep \o Join(Tail(parts), sep)

\* int(str) accepts surrounding whitespace; it raises ValueError unless digits remain
\* (signs and underscores do not occur in the strings of this model)
IsInt(str) == Strip(str) # <<>> /\ \A k \in DOMAIN Strip(str) : IsDigit(Strip(str)[k])

RECURSIVE DigitsValue(_)
DigitsValue(str) ==
    IF str = <<>> THEN 0
    ELSE DigitsValue(SubSeq(str, 1, Len(str) - 1)) * 10 + DigitValue(str[Len(str)])

ToInt(str) == DigitsValue(Strip(str))

----------------------------------------------------------------------------
(* utils/srt.py: format_timestamp and _parse_timestamp *)

\* the arguments tried are the multiples of StampStep up to StampCount times it, and
\* the values on both sides of each field's carry
StampCount == 40
StampStep == 359999

StampValues ==
    {k * StampStep : k \in 0..StampCount}
        \cup {999, 1000, 59999, 60000, 3599999, 3600000, 3723456, 359999999, 360000000}

\* format_timestamp, lines 20-23 (ms >= 0)
Hours(ms) == ms \div 3600000
\* variant: the hours not taken out of the minutes
MinutesMut(ms) == ms \div 60000
Minutes(ms) == (ms % 3600000) \div 60000
Seconds(ms) == (ms % 60000) \div 1000
Milliseconds(ms) == ms % 1000

\* format_timestamp, line 25
format_timestamp(ms) ==
    ZeroPad(Str(Hours(ms)), 2) \o <<":">> \o ZeroPad(Str(Minutes(ms)), 2) \o <<":">>
        \o ZeroPad(Str(Seconds(ms)), 2) \o <<",">> \o ZeroPad(Str(Milliseconds(ms)), 3)

\* _parse_timestamp returns for the strings that unpack into "h:m:s,ms" with four
\* integers, and raises ValueError for the others
ParsesAsTimestamp(timestamp) ==
    /\ Len(SplitOn(timestamp, <<",">>)) = 2
    /\ Len(SplitOn(SplitOn(timestamp, <<",">>)[1], <<":">>)) = 3
    /\ IsInt(SplitOn(timestamp, <<",">>)[2])
    /\ \A k \in 1..3 : IsInt(SplitOn(SplitOn(timestamp, <<",">>)[1], <<":">>)[k])

\* _parse_timestamp, lines 114-122
parse_timestamp(timestamp) ==
    LET time_part == SplitOn(timestamp, <<",">>)[1]
        ms_part == SplitOn(timestamp, <<",">>)[2]
        hms == SplitOn(time_part, <<":">>)
    IN ToInt(hms[1]) * 3600000 + ToInt(hms[2]) * 60000 + ToInt(hms[3]) * 1000
          + ToInt(ms_part)

StampIdle ==
    /\ ts_pc = "idle"
    /\ ts_ms = 0
    /\ ts_text = <<>>
    /\ ts_parsed = [status |-> "none"]

InitStamp ==
    /\ ts_pc = "format"
    /\ ts_ms \in StampValues
    /\ ts_text = <<>>
    /\ ts_parsed = [status |-> "none"]

\* a call of format_timestamp(ms)
FormatTimestamp ==
    /\ ts_pc = "format"
    /\ ts_text' = format_timestamp(ts_ms)
    /\ ts_pc' = "parse"
    /\ UNCHANGED <<ts_ms, ts_parsed>>
    /\ UNCHANGED <<stitchVars, alignVars, pipeVars, qualVars, loadVars, srtVars, valVars, genVars, decVars>>

\* a call of _parse_timestamp on the formatted string
ParseTimestamp ==
    /\ ts_pc = "parse"
    /\ ts_parsed' = IF ParsesAsTimestamp(ts_text)
                     THEN [status |-> "ok", value |-> parse_timestamp(ts_text)]
                     ELSE [status |-> "ValueError"]
    /\ ts_pc' = "done"
    /\ UNCHANGED <<ts_ms, ts_text>>
    /\ UNCHANGED <<stitchVars, alignVars, pipeVars, qualVars, loadVars, srtVars, valVars, genVars, decVars>>

NextStamp == FormatTimestamp \/ ParseTimestamp

----------------------------------------------------------------------------
(* utils/srt.py: generate_srt and parse_srt *)

\* longest segment list written
MaxSrt == 2

\* Segment.text is any str: plain, with an inner space, of two lines, ending in a
\* space, whitespace only, with a blank line inside, with a blank line followed by
\* three lines, and empty
SrtTexts == {<<"a">>, <<"a", " ", "b">>, <<"a", "\n", "b">>, <<"a", " ">>, <<" ">>,
             <<"a", "\n", "\n", "b">>,
             <<"a", "\n", "\n", "b", "\n", "b", "\n", "b">>, <<>>}

\* start_ms and end_ms of a segment
SrtTimes == {<<0, 999>>, <<300, 2500>>, <<3599999, 3723456>>}

SrtSegments ==
    SeqsUpTo({[text |-> t, start_ms |-> se[1], end_ms |-> se[2]] :
                 t \in SrtTexts, se \in SrtTimes}, MaxSrt)

Arrow == <<" ", "-", "-", ">", " ">>

\* generate_srt, lines 40-47: the four lines of entry idx
EntryLines(idx, segment) ==
    <<Str(idx),
      format_timestamp(segment.start_ms) \o Arrow \o format_timestamp(segment.end_ms),
      segment.text,
      <<>>>>

RECURSIVE LinesFrom(_, _)
LinesFrom(segs, idx) ==
    IF idx > Len(segs) THEN <<>>
    ELSE EntryLines(idx, segs[idx]) \o LinesFrom(segs, idx + 1)

\* generate_srt, line 49
generate_srt(segs) == Join(LinesFrom(segs, 1), <<"\n">>)

\* parse_srt, line 85: the blocks, and line 88: the lines of a block
Blocks(content) == SplitOn(Strip(content), <<"\n", "\n">>)
BlockLines(block) == SplitOn(Strip(block), <<"\n">>)

\* parse_srt, lines 89-90: blocks of fewer than three lines are skipped
Kept3(lines) == Len(lines) >= 3

\* parse_srt, lines 92-99 raise ValueError unless the first line is an integer and
\* the second unpacks into two timestamps
BlockParses(lines) ==
    /\ IsInt(lines[1])
    /\ Len(SplitOn(lines[2], Arrow)) = 2
    /\ \A k \in 1..2 : ParsesAsTimestamp(SplitOn(lines[2], Arrow)[k])

\* parse_srt, lines 92-106: the dict of a block
BlockEntry(lines) ==
    [id |-> ToInt(lines[1]),
     start_ms |-> parse_timestamp(SplitOn(lines[2], Arrow)[1]),
     end_ms |-> parse_timestamp(SplitOn(lines[2], Arrow)[2]),
     text |-> Join(SubSeq(lines, 3, Len(lines)), <<"\n">>)]

\* parse_srt
parse_srt(content) ==
    LET all == [k \in DOMAIN Blocks(content) |-> BlockLines(Blocks(content)[k])]
        kept == SelectSeq(all, Kept3)
    IN IF \A k \in DOMAIN kept : BlockParses(kept[k])
       THEN [status |-> "ok", segments |-> [k \in DOMAIN kept |-> BlockEntry(kept[k])]]
       ELSE [status |-> "ValueError", segments |-> <<>>]

SrtIdle ==
    /\ sr_pc = "idle"
    /\ sr_segments = <<>>
    /\ sr_content = <<>>
    /\ sr_parsed = [status |-> "none", segments |-> <<>>]

InitSrt ==
    /\ sr_pc = "generate"
    /\ sr_segments \in SrtSegments
    /\ sr_content = <<>>
    /\ sr_parsed = [status |-> "none", segments |-> <<>>]

\* a call of generate_srt(segments)
GenerateSrt ==
    /\ sr_pc = "generate"
    /\ sr_content' = generate_srt(sr_segments)
    /\ sr_pc' = "parse"
    /\ UNCHANGED <<sr_segments, sr_parsed>>
    /\ UNCHANGED <<stitchVars, alignVars, pipeVars, qualVars, loadVars, stampVars, valVars, genVars, decVars>>

\* a call of parse_srt on the generated content
ParseSrt ==
    /\ sr_pc = "parse"
    /\ sr_parsed' = parse_srt(sr_content)
    /\ sr_pc' = "done"
    /\ UNCHANGED <<sr_segments, sr_content>>
    /\ UNCHANGED <<stitchVars, alignVars, pipeVars, qualVars, loadVars, stampVars, valVars, genVars, decVars>>

NextSrt == GenerateSrt \/ ParseSrt

----------------------------------------------------------------------------
(* ScriptValidator.validate *)

MaxValLines == 3

ValIds == {1, 2}

LessonIds == {<<>>, <<"L", "_", "1">>, <<"L", " ", "1">>}

Titles == {<<>>, <<"T">>}

\* Lines as parse_script builds them; only the fields whose checks are varied here.
ValLines == [id : ValIds, text : {<<>>, <<"h", "i">>}]

ValScripts ==
    [lesson_id : LessonIds, title : Titles, lines : SeqsUpTo(ValLines, MaxValLines)]

Letters == {"L", "T", "a", "h", "i"}

\* str.replace(old, "") for a one-character old.
Remove(s, ch) == SelectSeq(s, LAMBDA c : c # ch)

\* str.isalnum(): false for the empty string.
IsAlnum(s) == s # <<>> /\ \A c \in DOMAIN s : IsDigit(s[c]) \/ s[c] \in Letters

ScriptError(what) == [line |-> 0, id |-> 0, what |-> what]

LineError(i, line, what) == [line |-> i, id |-> line.id, what |-> what]

\* The checks made before the lines are looked at.
HeadErrors(script) ==
    (IF script.lesson_id = <<>>
     THEN <<ScriptError("lesson_id is required")>>
     ELSE IF ~IsAlnum(Remove(Remove(script.lesson_id, "_"), "-"))
          THEN <<ScriptError("lesson_id format")>>
          ELSE <<>>)
    \o (IF script.title = <<>> THEN <<ScriptError("title is required")>> ELSE <<>>)

SeenAfterMut(seen, id) == {id}

\* seen_ids.add(line.id)
SeenAfter(seen, id) == seen \cup {id}

\* The errors one pass of the loop body appends for line i.
LineErrors(i, line, seen) ==
    (IF line.id \in seen THEN <<LineError(i, line, "Duplicate line ID")>> ELSE <<>>)
    \o (IF line.text = <<>> THEN <<LineError(i, line, "text is required")>> ELSE <<>>)

ValIdle ==
    /\ vd_pc = "idle"
    /\ vd_script = [lesson_id |-> <<>>, title |-> <<>>, lines |-> <<>>]
    /\ vd_i = 0
    /\ seen_ids = {}
    /\ vd_errors = <<>>

InitVal ==
    /\ vd_pc = "call"
    /\ vd_script \in ValScripts
    /\ vd_i = 0
    /\ seen_ids = {}
    /\ vd_errors = <<>>

\* errors = []; the lesson_id and title checks; the test whether there are lines.
ValidateHead ==
    /\ vd_pc = "call"
    /\ IF vd_script.lines = <<>>
       THEN /\ vd_errors' = HeadErrors(vd_script)
                                \o <<ScriptError("Script must have at least one line")>>
            /\ vd_pc' = "done"
            /\ UNCHANGED <<vd_i, seen_ids>>
       ELSE /\ vd_errors' = HeadErrors(vd_script)
            /\ seen_ids' = {}
            /\ vd_i' = 1
            /\ vd_pc' = "lines"
    /\ UNCHANGED <<vd_script>>
    /\ UNCHANGED <<stitchVars, alignVars, pipeVars, qualVars, loadVars, stampVars, srtVars, genVars, decVars>>

\* One pass of the loop over script.lines.
ValidateLine ==
    /\ vd_pc = "lines"
    /\ vd_i <= Len(vd_script.lines)
    /\ vd_errors' = vd_errors \o LineErrors(vd_i, vd_script.lines[vd_i], seen_ids)
    /\ seen_ids' = SeenAfter(seen_ids, vd_script.lines[vd_i].id)
    /\ vd_i' = vd_i + 1
    /\ UNCHANGED <<vd_pc, vd_script>>
    /\ UNCHANGED <<stitchVars, alignVars, pipeVars, qualVars, loadVars, stampVars, srtVars, genVars, decVars>>

\* return errors
ValidateReturn ==
    /\ vd_pc = "lines"
    /\ vd_i > Len(vd_script.lines)
    /\ vd_pc' = "done"
    /\ UNCHANGED <<vd_script, vd_i, seen_ids, vd_errors>>
    /\ UNCHANGED <<stitchVars, alignVars, pipeVars, qualVars, loadVars, stampVars, srtVars, genVars, decVars>>

NextVal == ValidateHead \/ ValidateLine \/ ValidateReturn

----------------------------------------------------------------------------
(* Pipeline.generate and generate_from_script, Synthesizer.synthesize_line *)

MaxRuns == 2

MaxGenLines == 2

MaxRetries == 2

\* Config(): synthesis.initial_silence_ms and synthesis.default_pause_ms
ConfigInitialSilence == 300
ConfigDefaultPause == 400

\* Synthesizer.__init__: default_speech_rate = 1.0, in tenths
DefaultSpeechRate == 10

GenNone == [status |-> "none"]

\* "settings = None" of parse_script
NoSettings == [present |-> FALSE, speech_rate |-> 0, initial_silence_ms |-> 0,
               default_pause_ms |-> 0]

SettingsPool ==
    {NoSettings,
     [present |-> TRUE, speech_rate |-> 8, initial_silence_ms |-> 0, default_pause_ms |-> 250],
     [present |-> TRUE, speech_rate |-> 10, initial_silence_ms |-> 300,
      default_pause_ms |-> 400]}

\* Script lines; voice "" is "no voice given", speech rates in tenths, duration_ms is
\* what the engine reports for the line when it succeeds.
GenLinePool ==
    {[id |-> 1, speaker |-> "female_us_1", voice |-> "", text |-> <<"h", "i">>,
      emotion |-> "neutral", speech_rate |-> 10, pause_after_ms |-> 400, duration_ms |-> 1000],
     [id |-> 2, speaker |-> "male_us_1", voice |-> "en-US-GuyNeural", text |-> <<"a">>,
      emotion |-> "cheerful", speech_rate |-> 12, pause_after_ms |-> 0, duration_ms |-> 700],
     [id |-> 1, speaker |-> "male_us_1", voice |-> "", text |-> <<"a">>,
      emotion |-> "neutral", speech_rate |-> 10, pause_after_ms |-> 400, duration_ms |-> 700]}

GenScripts ==
    [lesson_id : {<<"L", "_", "1">>}, title : {<<"T">>},
     lines : SeqsUpTo(GenLinePool, MaxGenLines), settings : SettingsPool]

RECURSIVE LoopErrors(_, _, _)
\* The errors the loop of validate appends from line i on.
LoopErrors(lines, i, seen) ==
    IF i > Len(lines) THEN <<>>
    ELSE LineErrors(i, lines[i], seen) \o LoopErrors(lines, i + 1, SeenAfter(seen, lines[i].id))

\* ScriptValidator.validate
validate(script) ==
    IF script.lines = <<>>
    THEN HeadErrors(script) \o <<ScriptError("Script must have at least one line")>>
    ELSE HeadErrors(script) \o LoopErrors(script.lines, 1, {})

\* Python's "a or b" on numbers, 0 standing for None as well.
OrElse(a, b) == IF a # 0 THEN a ELSE b

\* synthesize_script: "default_rate"
DefaultRate(script) ==
    IF script.settings.present /\ script.settings.speech_rate # 0
    THEN script.settings.speech_rate
    ELSE DefaultSpeechRate

\* synthesize_script: "speech_rate_override=default_rate if line.speech_rate == 1.0 else None"
SpeechRateOverride(script, line) == IF line.speech_rate = 10 THEN DefaultRate(script) ELSE 0

\* synthesize_line: "voice = line.voice if line.voice else line.speaker"
VoiceOf(line) == IF line.voice # "" THEN line.voice ELSE line.speaker

\* synthesize_line: "speed = speech_rate_override or line.speech_rate or self.default_speech_rate"
SpeedOf(script, line) ==
    OrElse(SpeechRateOverride(script, line), OrElse(line.speech_rate, DefaultSpeechRate))

RetriesLeftMut(n, limit) == n <= limit

\* synthesize_line: "while attempts < self.max_retries"
RetriesLeft(n, limit) == n < limit

NoGenError == [type |-> "None", line_id |-> 0, attempts |-> 0]

\* SynthesisError(line.id, f"Failed after {attempts} attempts: {last_error}")
SynthesisError(line_id, n) == [type |-> "SynthesisError", line_id |-> line_id, attempts |-> n]

FailureResultMut(lesson_id, title, err) ==
    [success |-> FALSE, lesson_id |-> lesson_id, title |-> title, audio_file |-> "None",
     srt_file |-> "None", timeline_file |-> "None", duration_ms |-> 0,
     error |-> [err EXCEPT !.line_id = 0]]

\* The PipelineResult of the "except Exception as e" handlers.
FailureResult(lesson_id, title, err) ==
    [success |-> FALSE, lesson_id |-> lesson_id, title |-> title, audio_file |-> "None",
     srt_file |-> "None", timeline_file |-> "None", duration_ms |-> 0, error |-> err]

\* get_audio_data_for_stitching and stitch_from_bytes: the total duration of the
\* lead-in silence, the lines' audio and the pauses between them.
StitchedDuration(lines, lead_ms) ==
    IF lines = <<>> THEN 0
    ELSE lead_ms + SumSeq([k \in DOMAIN lines |-> lines[k].duration_ms])
                 + SumSeq([k \in 1..(Len(lines) - 1) |-> lines[k].pause_after_ms])

GenIdle ==
    /\ gn_pc = "off"
    /\ gn_runs = 0
    /\ gn_entry = "none"
    /\ gn_script = [lesson_id |-> <<>>, title |-> <<>>, lines |-> <<>>, settings |-> NoSettings]
    /\ max_retries = 0
    /\ stitcher_initial_silence_ms = 0
    /\ stitcher_default_pause_ms = 0
    /\ gn_i = 0
    /\ attempts = 0
    /\ last_error = "None"
    /\ engine_calls = <<>>
    /\ gn_results = <<>>
    /\ gn_stitched = GenNone
    /\ gn_exports = 0
    /\ gn_result = GenNone

\* Pipeline.__init__ with the default Config.
InitGen ==
    /\ gn_pc = "idle"
    /\ gn_runs = 0
    /\ gn_entry = "none"
    /\ gn_script = [lesson_id |-> <<>>, title |-> <<>>, lines |-> <<>>, settings |-> NoSettings]
    /\ max_retries \in 0..MaxRetries
    /\ stitcher_initial_silence_ms = ConfigInitialSilence
    /\ stitcher_default_pause_ms = ConfigDefaultPause
    /\ gn_i = 0
    /\ attempts = 0
    /\ last_error = "None"
    /\ engine_calls = <<>>
    /\ gn_results = <<>>
    /\ gn_stitched = GenNone
    /\ gn_exports = 0
    /\ gn_result = GenNone

runVars == <<gn_i, attempts, last_error, engine_calls, gn_results, gn_stitched, gn_exports,
             gn_result>>

RunReset ==
    /\ gn_i' = 0
    /\ attempts' = 0
    /\ last_error' = "None"
    /\ engine_calls' = <<>>
    /\ gn_results' = <<>>
    /\ gn_stitched' = GenNone
    /\ gn_exports' = 0
    /\ gn_result' = GenNone

\* generate, lines 88-102: the script is loaded and its settings block, when it has
\* one, is written into the stitcher.
Generate ==
    /\ gn_pc \in {"idle", "returned"}
    /\ gn_runs < MaxRuns
    /\ \E script \in GenScripts :
          /\ gn_script' = script
          /\ IF script.settings.present
             THEN /\ stitcher_initial_silence_ms' = script.settings.initial_silence_ms
                  /\ stitcher_default_pause_ms' = script.settings.default_pause_ms
             ELSE UNCHANGED <<stitcher_initial_silence_ms, stitcher_default_pause_ms>>
    /\ gn_runs' = gn_runs + 1
    /\ gn_entry' = "generate"
    /\ gn_pc' = "validate"
    /\ RunReset
    /\ UNCHANGED <<max_retries>>
    /\ UNCHANGED <<stitchVars, alignVars, pipeVars, qualVars, loadVars, stampVars, srtVars, valVars, decVars>>

\* generate, lines 104-121: validate_or_raise, and the handler's result when it raises.
GenerateValidate ==
    /\ gn_pc = "validate"
    /\ IF validate(gn_script) # <<>>
       THEN /\ gn_result' = FailureResult(gn_script.lesson_id, <<>>,
                                          [type |-> "ValidationError", line_id |-> 0,
                                           attempts |-> 0])
            /\ gn_pc' = "returned"
       ELSE /\ gn_pc' = "from_script"
            /\ UNCHANGED gn_result
    /\ UNCHANGED <<gn_runs, gn_entry, gn_script, max_retries, stitcher_initial_silence_ms,
                   stitcher_default_pause_ms, gn_i, attempts, last_error, engine_calls,
                   gn_results, gn_stitched, gn_exports>>
    /\ UNCHANGED <<stitchVars, alignVars, pipeVars, qualVars, loadVars, stampVars, srtVars, valVars, decVars>>

\* generate_from_script called with a Script object.
GenerateFromScript ==
    /\ gn_pc \in {"idle", "returned"}
    /\ gn_runs < MaxRuns
    /\ gn_script' \in GenScripts
    /\ gn_runs' = gn_runs + 1
    /\ gn_entry' = "generate_from_script"
    /\ gn_pc' = "from_script"
    /\ RunReset
    /\ UNCHANGED <<max_retries, stitcher_initial_silence_ms, stitcher_default_pause_ms>>
    /\ UNCHANGED <<stitchVars, alignVars, pipeVars, qualVars, loadVars, stampVars, srtVars, valVars, decVars>>

\* generate_from_script, lines 143-153: validate_or_raise, then synthesize_script begins.
FromScriptValidate ==
    /\ gn_pc = "from_script"
    /\ IF validate(gn_script) # <<>>
       THEN /\ gn_result' = FailureResult(gn_script.lesson_id, gn_script.title,
                                          [type |-> "ValidationError", line_id |-> 0,
                                           attempts |-> 0])
            /\ gn_pc' = "returned"
            /\ UNCHANGED gn_i
       ELSE /\ gn_pc' = "synth"
            /\ gn_i' = 1
            /\ UNCHANGED gn_result
    /\ UNCHANGED <<gn_runs, gn_entry, gn_script, max_retries, stitcher_initial_silence_ms,
                   stitcher_default_pause_ms, attempts, last_error, engine_calls,
                   gn_results, gn_stitched, gn_exports>>
    /\ UNCHANGED <<stitchVars, alignVars, pipeVars, qualVars, loadVars, stampVars, srtVars, valVars, decVars>>

\* synthesize_script reaches a line and calls synthesize_line: "attempts = 0".
SynthesizeLineBegin ==
    /\ gn_pc = "synth"
    /\ gn_i <= Len(gn_script.lines)
    /\ attempts' = 0
    /\ last_error' = "None"
    /\ gn_pc' = "retry"
    /\ UNCHANGED <<gn_runs, gn_entry, gn_script, max_retries, stitcher_initial_silence_ms,
                   stitcher_default_pause_ms, gn_i, engine_calls, gn_results, gn_stitched,
                   gn_exports, gn_result>>
    /\ UNCHANGED <<stitchVars, alignVars, pipeVars, qualVars, loadVars, stampVars, srtVars, valVars, decVars>>

\* One pass of the while loop of synthesize_line: the engine is called and either
\* succeeds, which returns the LineSynthesisResult to synthesize_script, or fails.
EngineSynthesize ==
    /\ gn_pc = "retry"
    /\ RetriesLeft(attempts, max_retries)
    /\ attempts' = attempts + 1
    /\ LET line == gn_script.lines[gn_i]
       IN \E ok \in BOOLEAN :
             /\ engine_calls' = Append(engine_calls,
                                  [line |-> gn_i, text |-> line.text, voice |-> VoiceOf(line),
                                   emotion |-> line.emotion,
                                   speed |-> SpeedOf(gn_script, line), success |-> ok])
             /\ IF ok
                THEN /\ gn_results' = Append(gn_results,
                                         [line_id |-> line.id, attempts |-> attempts'])
                     /\ gn_i' = gn_i + 1
                     /\ gn_pc' = "synth"
                     /\ UNCHANGED last_error
                ELSE /\ last_error' = "engine error"
                     /\ UNCHANGED <<gn_results, gn_i, gn_pc>>
    /\ UNCHANGED <<gn_runs, gn_entry, gn_script, max_retries, stitcher_initial_silence_ms,
                   stitcher_default_pause_ms, gn_stitched, gn_exports, gn_result>>
    /\ UNCHANGED <<stitchVars, alignVars, pipeVars, qualVars, loadVars, stampVars, srtVars, valVars, decVars>>

\* synthesize_line raises SynthesisError; synthesize_script lets it through and the
\* handler of generate_from_script turns it into the result.
SynthesizeLineRaise ==
    /\ gn_pc = "retry"
    /\ ~RetriesLeft(attempts, max_retries)
    /\ gn_result' = FailureResult(gn_script.lesson_id, gn_script.title,
                                  SynthesisError(gn_script.lines[gn_i].id, attempts))
    /\ gn_pc' = "returned"
    /\ UNCHANGED <<gn_runs, gn_entry, gn_script, max_retries, stitcher_initial_silence_ms,
                   stitcher_default_pause_ms, gn_i, attempts, last_error, engine_calls,
                   gn_results, gn_stitched, gn_exports>>
    /\ UNCHANGED <<stitchVars, alignVars, pipeVars, qualVars, loadVars, stampVars, srtVars, valVars, decVars>>

\* generate_from_script, lines 155-160: every line is synthesized; the audio is stitched
\* with the stitcher's current settings.
StitchFromResults ==
    /\ gn_pc = "synth"
    /\ gn_i > Len(gn_script.lines)
    /\ gn_stitched' = [status |-> "ok",
                       initial_silence_ms |-> stitcher_initial_silence_ms,
                       default_pause_ms |-> stitcher_default_pause_ms,
                       total_duration_ms |->
                           StitchedDuration(gn_script.lines, stitcher_initial_silence_ms)]
    /\ gn_pc' = "export"
    /\ UNCHANGED <<gn_runs, gn_entry, gn_script, max_retries, stitcher_initial_silence_ms,
                   stitcher_default_pause_ms, gn_i, attempts, last_error, engine_calls,
                   gn_results, gn_exports, gn_result>>
    /\ UNCHANGED <<stitchVars, alignVars, pipeVars, qualVars, loadVars, stampVars, srtVars, valVars, decVars>>

\* generate_from_script, lines 162-212: the audio, the SRT and the timeline are written
\* and the successful result is returned.
ExportAll ==
    /\ gn_pc = "export"
    /\ gn_exports' = gn_exports + 3
    /\ gn_result' = [success |-> TRUE, lesson_id |-> gn_script.lesson_id,
                     title |-> gn_script.title, audio_file |-> "audio", srt_file |-> "srt",
                     timeline_file |-> "timeline",
                     duration_ms |-> gn_stitched.total_duration_ms, error |-> NoGenError]
    /\ gn_pc' = "returned"
    /\ UNCHANGED <<gn_runs, gn_entry, gn_script, max_retries, stitcher_initial_silence_ms,
                   stitcher_default_pause_ms, gn_i, attempts, last_error, engine_calls,
                   gn_results, gn_stitched>>
    /\ UNCHANGED <<stitchVars, alignVars, pipeVars, qualVars, loadVars, stampVars, srtVars, valVars, decVars>>

\* An exporter raises (the audio file cannot be written): the handler's result.
ExportRaises ==
    /\ gn_pc = "export"
    /\ gn_exports' = gn_exports + 1
    /\ gn_result' = FailureResult(gn_script.lesson_id, gn_script.title,
                                  [type |-> "OSError", line_id |-> 0, attempts |-> 0])
    /\ gn_pc' = "returned"
    /\ UNCHANGED <<gn_runs, gn_entry, gn_script, max_retries, stitcher_initial_silence_ms,
                   stitcher_default_pause_ms, gn_i, attempts, last_error, engine_calls,
                   gn_results, gn_stitched>>
    /\ UNCHANGED <<stitchVars, alignVars, pipeVars, qualVars, loadVars, stampVars, srtVars, valVars, decVars>>

NextGen ==
    \/ Generate
    \/ GenerateValidate
    \/ GenerateFromScript
    \/ FromScriptValidate
    \/ SynthesizeLineBegin
    \/ EngineSynthesize
    \/ SynthesizeLineRaise
    \/ StitchFromResults
    \/ ExportAll
    \/ ExportRaises

----------------------------------------------------------------------------
(* AlignmentService._match_segments: the decision on the boundary deltas *)

\* Boundary deltas in ms: sums that are even and odd, below, at and above the thresholds.
DeltaPool == {-251, -201, -200, -50, -1, 0, 1, 49, 50, 51, 200, 201, 203, 1603}

NoDecision == [drift_ms |-> 0, use_aligned |-> FALSE, confidence |-> 0]

\* _match_segments, lines 202-219: avg_drift, use_aligned and the confidence recorded
DriftDecision(start_drift, end_drift, threshold) ==
    LET avg_drift == AvgDrift(start_drift, end_drift)
        use_aligned == UseAligned(avg_drift, threshold)
    IN [drift_ms |-> avg_drift, use_aligned |-> use_aligned,
        confidence |-> IF use_aligned THEN ConfidenceCorrected ELSE ConfidenceFull]

DecideIdle ==
    /\ dc_pc = "idle"
    /\ dc_start_drift = 0
    /\ dc_end_drift = 0
    /\ dc_threshold = 0
    /\ dc_decision = NoDecision
    /\ dc_negated = NoDecision

InitDecide ==
    /\ dc_pc = "deltas"
    /\ dc_start_drift \in DeltaPool
    /\ dc_end_drift \in DeltaPool
    /\ dc_threshold \in Thresholds
    /\ dc_decision = NoDecision
    /\ dc_negated = NoDecision

\* The decision for a line whose candidate differs from its provisional timing by the deltas.
Decide ==
    /\ dc_pc = "deltas"
    /\ dc_decision' = DriftDecision(dc_start_drift, dc_end_drift, dc_threshold)
    /\ dc_pc' = "negated"
    /\ UNCHANGED <<dc_start_drift, dc_end_drift, dc_threshold, dc_negated>>
    /\ UNCHANGED <<stitchVars, alignVars, pipeVars, qualVars, loadVars, stampVars, srtVars, valVars, genVars>>

\* The decision for a line whose deltas are the negated ones.
DecideNegated ==
    /\ dc_pc = "negated"
    /\ dc_negated' = DriftDecision(-dc_start_drift, -dc_end_drift, dc_threshold)
    /\ dc_pc' = "done"
    /\ UNCHANGED <<dc_start_drift, dc_end_drift, dc_threshold, dc_decision>>
    /\ UNCHANGED <<stitchVars, alignVars, pipeVars, qualVars, loadVars, stampVars, srtVars, valVars, genVars>>

NextDecide == Decide \/ DecideNegated

----------------------------------------------------------------------------
(* Specifications *)

UtilIdle == QualIdle /\ LoadIdle /\ StampIdle /\ SrtIdle /\ ValIdle /\ GenIdle /\ DecideIdle

InitStitchOnly == InitStitch /\ AlignIdle /\ PipeIdle /\ UtilIdle

SpecStitch == InitStitchOnly /\ [][NextStitch]_vars

InitAlignOnly == StitchIdle /\ InitAlign /\ PipeIdle /\ UtilIdle

SpecAlign == InitAlignOnly /\ [][NextAlign]_vars

InitPipeOnly == StitchIdle /\ AlignIdle /\ InitPipe /\ UtilIdle

SpecPipeline == InitPipeOnly /\ [][NextPipe]_vars

InitQualOnly ==
    StitchIdle /\ AlignIdle /\ PipeIdle /\ InitQual /\ LoadIdle /\ StampIdle /\ SrtIdle /\ ValIdle /\ GenIdle /\ DecideIdle

SpecQuality == InitQualOnly /\ [][NextQual]_vars

InitLoadOnly ==
    StitchIdle /\ AlignIdle /\ PipeIdle /\ QualIdle /\ InitLoad /\ StampIdle /\ SrtIdle /\ ValIdle /\ GenIdle /\ DecideIdle

SpecLoad == InitLoadOnly /\ [][NextLoad]_vars

InitStampOnly ==
    StitchIdle /\ AlignIdle /\ PipeIdle /\ QualIdle /\ LoadIdle /\ InitStamp /\ SrtIdle /\ ValIdle /\ GenIdle /\ DecideIdle

SpecTimestamp == InitStampOnly /\ [][NextStamp]_vars

InitSrtOnly ==
    StitchIdle /\ AlignIdle /\ PipeIdle /\ QualIdle /\ LoadIdle /\ StampIdle /\ InitSrt /\ ValIdle /\ GenIdle /\ DecideIdle

SpecSrt == InitSrtOnly /\ [][NextSrt]_vars

InitValOnly ==
    StitchIdle /\ AlignIdle /\ PipeIdle /\ QualIdle /\ LoadIdle /\ StampIdle /\ SrtIdle /\ InitVal /\ GenIdle /\ DecideIdle

SpecValidate == InitValOnly /\ [][NextVal]_vars

InitGenOnly ==
    StitchIdle /\ AlignIdle /\ PipeIdle /\ QualIdle /\ LoadIdle /\ StampIdle /\ SrtIdle /\ ValIdle /\ InitGen /\ DecideIdle

SpecGenerate == InitGenOnly /\ [][NextGen]_vars

InitDecideOnly ==
    StitchIdle /\ AlignIdle /\ PipeIdle /\ QualIdle /\ LoadIdle /\ StampIdle /\ SrtIdle /\ ValIdle /\ GenIdle /\ InitDecide

SpecDecide == InitDecideOnly /\ [][NextDecide]_vars

----------------------------------------------------------------------------
(* Properties of the stitcher *)

\* C19: stitching zero rendered lines returns (it does not raise) an empty buffer,
\* an empty segment table and the total duration 0; no lead-in silence is emitted,
\* whatever initial_silence_ms is.
C19_EmptyStitch ==
    audio_data = <<>> =>
        /\ st_pc \in {"call", "done"}
        /\ combined = <<>>
        /\ segments = <<>>
        /\ current_position_ms = 0
        /\ (st_pc = "done") =>
              /\ stitch_result.status = "ok"
              /\ stitch_result.audio = <<>>
              /\ stitch_result.segments = <<>>
              /\ stitch_result.total_duration_ms = 0

\* a stitcher configured with a lead-in of 300 ms returned for no lines
C19_Witness ==
    /\ st_pc = "done"
    /\ audio_data = <<>>
    /\ initial_silence_ms = 300
    /\ stitch_result.status = "ok"
    /\ stitch_result.total_duration_ms = 0

\* C20: for each rendered line the stitcher trims the leading and trailing
\* near-silence (a guard band kept at each edge) before appending it, and the segment
\* it records has end_ms = cursor + trimmed duration: the duration of a line rendered
\* with silent padding is the trimmed one, not the raw one.
C20_TrimmedDuration ==
    (st_pc = "done" /\ audio_data # <<>>) =>
        \A k \in DOMAIN audio_data \cap DOMAIN segments :
            LET trimmed == trim_silence(load_audio_bytes(audio_data[k]))
            IN /\ segments[k].audio_duration_ms = trimmed.len
               /\ segments[k].end_ms = segments[k].start_ms + trimmed.len

\* the table and the input of a finished, non-empty stitch
StitchFinished == st_pc = "done" /\ audio_data # <<>>

\* C1: for every non-empty input of stitch the segment table has one entry per input,
\* in input order with the same line ids, every entry has
\* end_ms - start_ms = audio_duration_ms (the length of the line's audio), and
\* consecutive entries do not overlap (the earlier end_ms <= the later start_ms).
C1_SegmentTable ==
    StitchFinished =>
        LET segs == stitch_result.segments
        IN /\ Len(segs) = Len(audio_data)
           /\ \A k \in DOMAIN segs :
                 /\ segs[k].id = audio_data[k].line_id
                 /\ segs[k].audio_duration_ms = audio_data[k].audio
                 /\ segs[k].end_ms - segs[k].start_ms = segs[k].audio_duration_ms
           /\ \A k \in DOMAIN segs :
                 k + 1 \in DOMAIN segs => segs[k].end_ms <= segs[k + 1].start_ms

\* a finished stitch of three lines whose ids are not their positions, with a
\* zero-length line followed by a zero pause: its neighbours touch without overlapping
C1_Witness ==
    /\ StitchFinished
    /\ Len(stitch_result.segments) = 3
    /\ stitch_result.segments[1].id = 3
    /\ stitch_result.segments[2].start_ms = stitch_result.segments[2].end_ms
    /\ stitch_result.segments[2].end_ms = stitch_result.segments[3].start_ms
    /\ stitch_result.segments[1].end_ms < stitch_result.segments[2].start_ms

\* C21: the segment table is strictly ordered by ascending start_ms in input line
\* order for every input, lines of zero duration and pauses of zero included; a
\* zero-duration line gets a segment with start_ms = end_ms and the lines after it
\* are placed from there.
C21_StrictOrder ==
    StitchFinished =>
        LET segs == stitch_result.segments
        IN /\ Len(segs) = Len(audio_data)
           /\ \A k \in DOMAIN segs :
                 /\ audio_data[k].audio = 0 => segs[k].start_ms = segs[k].end_ms
                 /\ k + 1 \in DOMAIN segs =>
                       /\ segs[k + 1].start_ms = segs[k].end_ms + audio_data[k].pause_after_ms
                       /\ segs[k].start_ms < segs[k + 1].start_ms

\* The index in buf of the audio chunk of the k-th line.
AudioChunk(buf, k) ==
    CHOOSE c \in DOMAIN buf :
        buf[c].kind = "audio" /\ Cardinality({d \in 1..c : buf[d].kind = "audio"}) = k

\* The position in buf, in ms, at which chunk c begins.
Offset(buf, c) == AudioLen(SubSeq(buf, 1, c - 1))

\* The step that normalizes leaves the length of the buffer and the table as they are.
NormalizeKeeps ==
    (st_pc = "normalize" /\ st_pc' = "done") =>
        /\ AudioLen(combined') = AudioLen(combined)
        /\ Len(combined') = Len(combined)
        /\ segments' = segments
        /\ stitch_result'.segments = segments

IsScenario ==
    /\ Len(audio_data) = 3
    /\ \A k \in DOMAIN audio_data :
          audio_data[k].audio = 1000 /\ audio_data[k].pause_after_ms = 400
    /\ initial_silence_ms = 300

\* C7: the first segment starts at initial_silence_ms, every later segment starts at
\* the previous segment's end_ms plus the pause after the previous line, and no gap
\* follows the final line: the total length is the lead-in plus the durations plus the
\* pauses of all lines but the last.  In the scenario the starts are 300, 1700, 3100,
\* every duration is 1000 and the total length is 4100.
C7_Placement ==
    StitchFinished =>
        LET segs == stitch_result.segments
            n == Len(audio_data)
        IN /\ Len(segs) = n
           /\ segs[1].start_ms = initial_silence_ms
           /\ \A k \in 2..n :
                 segs[k].start_ms = segs[k - 1].end_ms + audio_data[k - 1].pause_after_ms
           /\ stitch_result.total_duration_ms =
                 initial_silence_ms
                 + SumSeq([k \in 1..n |-> audio_data[k].audio])
                 + SumSeq([k \in 1..(n - 1) |-> audio_data[k].pause_after_ms])
           /\ IsScenario =>
                 /\ <<segs[1].start_ms, segs[2].start_ms, segs[3].start_ms>> = <<300, 1700, 3100>>
                 /\ \A k \in 1..3 : segs[k].audio_duration_ms = 1000
                 /\ stitch_result.total_duration_ms = 4100

\* the scenario has been stitched
C7_Witness ==
    /\ StitchFinished
    /\ IsScenario
    /\ stitch_result.total_duration_ms = 4100
    /\ stitch_result.segments[3].start_ms = 3100

----------------------------------------------------------------------------
(* Properties of the aligner *)

\* lines _match_segments has emitted so far in enabled mode, with what it logged
Matched == IF al_pc \in {"match", "done"} /\ al_raised = "none" THEN DOMAIN aligned ELSE {}

HasTokens(k) == match_log[k].num_words > 0

Adopted(k) ==
    /\ aligned[k].aligned_start_ms = match_log[k].best_start_ms
    /\ aligned[k].aligned_end_ms = match_log[k].best_end_ms
    /\ aligned[k].confidence = ConfidenceCorrected

Kept(k) ==
    /\ aligned[k].aligned_start_ms = al_segments[k].start_ms
    /\ aligned[k].aligned_end_ms = al_segments[k].end_ms
    /\ aligned[k].confidence = ConfidenceFull

\* C2: in enabled mode, a line with tokens whose abs(drift_ms) exceeds the threshold
\* gets the candidate start/end and confidence 0.9; otherwise it keeps the provisional
\* start/end and confidence 1.0.  The comparison is strict (a drift equal to the
\* threshold keeps the provisional timing) and there is no blend of the two.
C2_DriftDecision ==
    \A k \in Matched :
        HasTokens(k) =>
            /\ Len(match_log) = Len(aligned)
            /\ aligned[k].original_start_ms = al_segments[k].start_ms
            /\ aligned[k].original_end_ms = al_segments[k].end_ms
            /\ IF Abs(aligned[k].drift_ms) > drift_threshold_ms THEN Adopted(k) ELSE Kept(k)

\* the boundary: with threshold 200 the first line has drift exactly 200 and keeps its
\* provisional timing although the candidate differs, the second has drift 201 and
\* takes the candidate
C2_Witness ==
    /\ drift_threshold_ms = 200
    /\ Len(aligned) = 2 /\ Matched = {1, 2}
    /\ HasTokens(1) /\ aligned[1].drift_ms = 200 /\ Kept(1)
    /\ match_log[1].best_start_ms # al_segments[1].start_ms
    /\ HasTokens(2) /\ aligned[2].drift_ms = 201 /\ Adopted(2)
    /\ aligned[2].aligned_start_ms # al_segments[2].start_ms

\* the expected text of line k has no whitespace-delimited token
NoTokens(k) ==
    LET text == IF al_segments[k].line_id \in DOMAIN texts
                THEN texts[al_segments[k].line_id] ELSE <<>>
    IN \A c \in DOMAIN text : text[c] = " "

\* C22: in enabled mode a line whose expected text has no token (empty or
\* whitespace-only text, or an id absent from the text map) is emitted with its
\* provisional timing, drift_ms 0 and confidence 1.0, and consumes no transcribed
\* word: the word cursor is the same before and after the line.
C22_NoTokens ==
    \A k \in Matched :
        NoTokens(k) =>
            /\ Len(match_log) = Len(aligned)
            /\ aligned[k].line_id = al_segments[k].line_id
            /\ aligned[k].aligned_start_ms = al_segments[k].start_ms
            /\ aligned[k].aligned_end_ms = al_segments[k].end_ms
            /\ aligned[k].drift_ms = 0
            /\ aligned[k].confidence = ConfidenceFull
            /\ match_log[k].idx_after = match_log[k].idx_before

\* a whitespace-only line met while words remained took none: the line after it, which
\* has tokens, consumed the first word
C22_Witness ==
    /\ Matched = {1, 2}
    /\ al_segments[1].line_id \in DOMAIN texts
    /\ texts[al_segments[1].line_id] = <<" ">>
    /\ Len(word_timings) >= 1
    /\ aligned[1].drift_ms = 0
    /\ match_log[1].idx_before = 0 /\ match_log[1].idx_after = 0
    /\ ~NoTokens(2)
    /\ match_log[2].idx_before = 0 /\ match_log[2].idx_after >= 1

\* line k has tokens and was reached with no transcribed word left
Starved(k) == HasTokens(k) /\ match_log[k].idx_before >= Len(word_timings)

\* C29: in enabled mode a line with tokens that is reached when no transcribed word
\* remains (the empty transcript included) has the provisional timing as its candidate:
\* drift_ms 0, confidence 1.0, aligned timing equal to the original timing, nothing
\* for needs_review (which stays False when every line is like that), and the word
\* cursor stays at the end of the transcript.
C29_NoWordsLeft ==
    /\ \A k \in Matched :
          Starved(k) =>
              /\ match_log[k].best_start_ms = al_segments[k].start_ms
              /\ match_log[k].best_end_ms = al_segments[k].end_ms
              /\ aligned[k].drift_ms = 0
              /\ aligned[k].confidence = ConfidenceFull
              /\ aligned[k].original_start_ms = al_segments[k].start_ms
              /\ aligned[k].original_end_ms = al_segments[k].end_ms
              /\ aligned[k].aligned_start_ms = aligned[k].original_start_ms
              /\ aligned[k].aligned_end_ms = aligned[k].original_end_ms
              /\ ~NeedsReview(<<aligned[k]>>, drift_threshold_ms)
              /\ match_log[k].idx_after = match_log[k].idx_before
              /\ match_log[k].idx_after = Len(word_timings)
    /\ (al_pc = "done" /\ enabled /\ alignment_result.success
        /\ \A k \in Matched : Starved(k) \/ NoTokens(k)) =>
              /\ alignment_result.needs_review = FALSE
              /\ alignment_result.total_drift_ms = 0

\* a one-word transcript used up by the first line, whose timing is corrected; the
\* second line has tokens and finds nothing left
C29_Witness ==
    /\ al_pc = "done" /\ enabled /\ alignment_result.success
    /\ Matched = {1, 2}
    /\ Len(word_timings) = 1
    /\ HasTokens(1) /\ match_log[1].idx_after = 1 /\ aligned[1].confidence = ConfidenceCorrected
    /\ Starved(2)
    /\ match_log[2].idx_before = 1 /\ match_log[2].idx_after = 1
    /\ aligned[2].drift_ms = 0
    /\ alignment_result.needs_review

\* Word times that never go back: each word ends no earlier than it starts and starts
\* no earlier than the word before it ended.
WordsInOrder ==
    \A w \in DOMAIN word_timings :
        /\ word_timings[w].start_ms <= word_timings[w].end_ms
        /\ w + 1 \in DOMAIN word_timings =>
              word_timings[w].end_ms <= word_timings[w + 1].start_ms

ProvisionalInOrder ==
    \A k \in DOMAIN al_segments :
        /\ al_segments[k].start_ms <= al_segments[k].end_ms
        /\ k + 1 \in DOMAIN al_segments =>
              al_segments[k].end_ms <= al_segments[k + 1].start_ms

\* C26: after an enabled-mode alignment of provisional segments that are ordered and do
\* not overlap, against a transcript whose word times are in order, the final segments
\* (start and end taken from aligned_start_ms and aligned_end_ms) are still ordered by
\* start_ms, do not overlap, and have end_ms >= start_ms.
C26_FinalOrder ==
    (al_pc = "done" /\ enabled /\ alignment_result.success
     /\ ProvisionalInOrder /\ WordsInOrder) =>
        LET segs == alignment_result.segments
        IN \A k \in DOMAIN segs :
              /\ segs[k].aligned_start_ms <= segs[k].aligned_end_ms
              /\ k + 1 \in DOMAIN segs =>
                    /\ segs[k].aligned_start_ms <= segs[k + 1].aligned_start_ms
                    /\ segs[k].aligned_end_ms <= segs[k + 1].aligned_start_ms

\* C8: the word cursor never decreases; a line with n > 0 tokens reached while words
\* remain consumes exactly min(n, remaining) consecutive words starting at the cursor,
\* its candidate start is the first consumed word's start_ms, its candidate end the
\* last consumed word's end_ms, the cursor then is just past the consumed words, and
\* no word is used for two lines (each line starts where the previous one stopped).
C8_ForwardCursor ==
    /\ Matched # {} =>
          /\ Len(match_log) = Len(aligned)
          /\ match_log[1].idx_before = 0
          /\ word_idx = match_log[Len(match_log)].idx_after
          /\ word_idx <= Len(word_timings)
    /\ \A k \in Matched :
          LET e == match_log[k]
              remaining == Len(word_timings) - e.idx_before
          IN /\ e.idx_before <= e.idx_after
             /\ k + 1 \in Matched => match_log[k + 1].idx_before = e.idx_after
             /\ (e.num_words > 0 /\ remaining > 0) =>
                   /\ e.idx_after = e.idx_before + Min(e.num_words, remaining)
                   /\ e.best_start_ms = word_timings[e.idx_before + 1].start_ms
                   /\ e.best_end_ms = word_timings[e.idx_after].end_ms

\* a two-token line that found a single remaining word (clipped), after a line that
\* consumed words before it
C8_Witness ==
    /\ Matched = {1, 2}
    /\ Len(word_timings) = 3
    /\ match_log[1].num_words = 2 /\ match_log[1].idx_after = 2
    /\ match_log[2].num_words = 2 /\ match_log[2].idx_before = 2 /\ match_log[2].idx_after = 3
    /\ word_timings[1] # word_timings[3]

\* the sum of the two boundary deltas of line k
DeltaSum(k) ==
    (match_log[k].best_start_ms - al_segments[k].start_ms)
    + (match_log[k].best_end_ms - al_segments[k].end_ms)

\* C9: for every line with tokens the recorded drift_ms is the floor of half the sum
\* of the two boundary deltas (rounded toward negative infinity), whether or not the
\* candidate timing is adopted.
C9_FloorAverage ==
    \A k \in Matched :
        HasTokens(k) =>
            /\ 2 * aligned[k].drift_ms <= DeltaSum(k)
            /\ DeltaSum(k) <= 2 * aligned[k].drift_ms + 1

\* a negative odd sum of deltas on a line that keeps its provisional timing
\* (deltas +200 and -201: drift -1), and one on a line that adopts the candidate
C9_Witness ==
    /\ Matched = {1, 2}
    /\ HasTokens(1) /\ DeltaSum(1) = -1 /\ aligned[1].drift_ms = -1 /\ Kept(1)
    /\ HasTokens(2) /\ DeltaSum(2) < 0 /\ DeltaSum(2) % 2 = 1 /\ Adopted(2)

RECURSIVE AbsDriftFrom(_, _)
AbsDriftFrom(segs, k) ==
    IF k > Len(segs) THEN 0
    ELSE (IF segs[k].drift_ms < 0 THEN 0 - segs[k].drift_ms ELSE segs[k].drift_ms)
         + AbsDriftFrom(segs, k + 1)

AlignSucceeded ==
    al_pc = "done" /\ enabled /\ alignment_result.status = "returned" /\ alignment_result.success

\* C10: for every successful enabled-mode result, total_drift_ms is the sum of
\* abs(drift_ms) over the output segments, and needs_review is true iff some output
\* segment has abs(drift_ms) > drift_threshold_ms.
C10_Aggregate ==
    AlignSucceeded =>
        LET segs == alignment_result.segments
        IN /\ alignment_result.total_drift_ms = AbsDriftFrom(segs, 1)
           /\ alignment_result.needs_review =
                 (\E k \in DOMAIN segs :
                     segs[k].drift_ms > drift_threshold_ms
                     \/ segs[k].drift_ms < 0 - drift_threshold_ms)

\* a successful result with a negative and a positive drift, of which one exceeds the
\* threshold
C10_Witness ==
    /\ AlignSucceeded
    /\ Len(alignment_result.segments) = 2
    /\ alignment_result.segments[1].drift_ms < 0
    /\ alignment_result.segments[2].drift_ms > drift_threshold_ms
    /\ alignment_result.needs_review
    /\ alignment_result.total_drift_ms > alignment_result.segments[2].drift_ms

\* the result echoes the provisional table: one segment per input, in order, with the
\* provisional timing, drift 0 and confidence 1.0, and zero aggregates
EchoesProvisional(res) ==
    /\ Len(res.segments) = Len(al_segments)
    /\ \A k \in DOMAIN al_segments :
          /\ res.segments[k].line_id = al_segments[k].line_id
          /\ res.segments[k].aligned_start_ms = al_segments[k].start_ms
          /\ res.segments[k].aligned_end_ms = al_segments[k].end_ms
          /\ res.segments[k].drift_ms = 0
          /\ res.segments[k].confidence = ConfidenceFull
    /\ res.total_drift_ms = 0
    /\ res.needs_review = FALSE

\* C5: if loading the model or the transcription call raises, align returns (it does
\* not raise) success = false with an error message and one segment per input, in
\* order, with the provisional start/end, drift 0, confidence 1.0, total_drift_ms 0
\* and needs_review false.
C5_FailureFallback ==
    al_raised # "none" =>
        /\ al_pc = "done"
        /\ alignment_result.status = "returned"
        /\ alignment_result.success = FALSE
        /\ alignment_result.error # "None"
        /\ EchoesProvisional(alignment_result)

\* the transcription call raised on a two-line table
C5_Witness ==
    /\ al_raised = "transcribe"
    /\ al_pc = "done"
    /\ Len(al_segments) = 2
    /\ alignment_result.success = FALSE
    /\ Len(alignment_result.segments) = 2

\* C6: with alignment disabled align returns success = true and the provisional table
\* echoed, for any segment table and text map, and neither loads the model nor calls
\* the transcription service.
C6_DisabledIdentity ==
    (al_pc = "done" /\ ~enabled) =>
        /\ alignment_result.status = "returned"
        /\ alignment_result.success = TRUE
        /\ alignment_result.error = "None"
        /\ EchoesProvisional(alignment_result)
        /\ load_calls = 0
        /\ transcribe_calls = 0
        /\ self_model = "None"
        /\ al_raised = "none"

\* a disabled-mode call on a two-line table whose lines have texts with tokens
C6_Witness ==
    /\ al_pc = "done"
    /\ ~enabled
    /\ Len(al_segments) = 2
    /\ \A k \in DOMAIN al_segments :
          /\ al_segments[k].line_id \in DOMAIN texts
          /\ NumWords(texts[al_segments[k].line_id]) > 0
    /\ Len(alignment_result.segments) = 2

\* the result has one AlignedSegment per input segment, in the input's order, each
\* with the input's line_id and the input's start_ms/end_ms as original_*
KeepsOriginals(res) ==
    /\ Len(res.segments) = Len(al_segments)
    /\ \A k \in DOMAIN al_segments :
          /\ res.segments[k].line_id = al_segments[k].line_id
          /\ res.segments[k].original_start_ms = al_segments[k].start_ms
          /\ res.segments[k].original_end_ms = al_segments[k].end_ms

\* C11: in every mode (disabled, enabled, failure) align returns one AlignedSegment
\* per input segment, in the same order and with the same line_id, whose
\* original_start_ms/original_end_ms are the input's start_ms/end_ms; no step of align
\* changes the provisional segment table or the text map it was given.
C11_Frame ==
    /\ [](al_pc = "done" => (alignment_result.status = "returned"
                              /\ KeepsOriginals(alignment_result)))
    /\ [][al_segments' = al_segments /\ texts' = texts]_vars

\* an enabled call on a two-line table that adopted a corrected timing for a line
C11_Witness ==
    /\ AlignSucceeded
    /\ Len(al_segments) = 2
    /\ Len(alignment_result.segments) = 2
    /\ \E k \in 1..2 :
          /\ alignment_result.segments[k].aligned_start_ms # al_segments[k].start_ms
          /\ alignment_result.segments[k].original_start_ms = al_segments[k].start_ms

----------------------------------------------------------------------------
(* Properties of the pipeline *)

\* the lines whose result _synthesize_with_retry has recorded
Recorded == DOMAIN synthesis_results

\* C3: for each line synthesize_line is called at most max_attempts times; a line
\* recorded as failed had exactly max_attempts calls, all failed; a line recorded as
\* successful with its first success at call k had exactly k calls; no call follows a
\* success.
C3_RetryCount ==
    /\ \A i \in DOMAIN call_log :
          /\ Len(call_log[i]) <= max_attempts
          /\ \A j \in DOMAIN call_log[i] : call_log[i][j] = "ok" => j = Len(call_log[i])
    /\ \A i \in Recorded :
          /\ synthesis_results[i].line_id = script_lines[i]
          /\ Len(call_log[i]) >= 1
          /\ IF synthesis_results[i].success
             THEN call_log[i][Len(call_log[i])] = "ok"
             ELSE /\ Len(call_log[i]) = max_attempts
                  /\ \A j \in DOMAIN call_log[i] : call_log[i][j] = "failed"

\* with max_attempts = 3: a line that succeeded at its second call, then a line that
\* failed three times
C3_Witness ==
    /\ max_attempts = 3
    /\ Len(synthesis_results) >= 2
    /\ synthesis_results[1].success /\ call_log[1] = <<"failed", "ok">>
    /\ ~synthesis_results[2].success /\ call_log[2] = <<"failed", "failed", "failed">>

\* the ids of the lines whose recorded result is a failure, in line order
RECURSIVE FailedLineIdsFrom(_)
FailedLineIdsFrom(k) ==
    IF k > Len(synthesis_results) THEN <<>>
    ELSE (IF synthesis_results[k].success THEN <<>> ELSE <<synthesis_results[k].line_id>>)
         \o FailedLineIdsFrom(k + 1)

SomeLineFailed == \E i \in Recorded : ~synthesis_results[i].success

\* C4: if a line still fails after all its attempts, generate raises PipelineError
\* listing exactly the ids of the lines whose final result is a failure, every line
\* having been attempted before the check, and the stitcher, the aligner and the
\* output writers are never invoked.
C4_AbortBeforeStitch ==
    /\ SomeLineFailed =>
          /\ stitch_invoked = 0 /\ align_invoked = 0
          /\ ~srt_written /\ ~timeline_written
          /\ pl_pc \in {"synth", "raised"}
          /\ pl_pc = "raised" =>
                /\ pl_error.type = "PipelineError"
                /\ pl_error.what = "Synthesis failed for lines"
                /\ pl_error.ids = FailedLineIdsFrom(1)
                /\ Len(synthesis_results) = Len(script_lines)
                /\ \A i \in DOMAIN script_lines : Len(call_log[i]) >= 1
    /\ (pl_pc = "raised" /\ pl_error.what = "Synthesis failed for lines") => SomeLineFailed

\* a three-line script of which only the middle line failed: the error names that
\* line alone
C4_Witness ==
    /\ pl_pc = "raised"
    /\ Len(script_lines) = 3
    /\ Len(synthesis_results) = 3
    /\ synthesis_results[1].success /\ ~synthesis_results[2].success
    /\ synthesis_results[3].success
    /\ pl_error.ids = <<script_lines[2]>>
    /\ stitch_invoked = 0

\* synthesize_line has been called; the validation, or the stitch, has failed
SynthesisCalled == \E i \in DOMAIN call_log : call_log[i] # <<>>
ValidationFailed == pl_error.type = "PipelineError" /\ pl_error.what = "Validation failed"
StitchFailed == pl_error.type = "PipelineError" /\ pl_error.what = "Stitching failed"

\* a step of generate does not go back to a stage that is over
StagesStayDone ==
    /\ (stitch_invoked > 0) =>
          (call_log' = call_log /\ synthesis_results' = synthesis_results)
    /\ (align_invoked > 0) => (stitch_invoked' = stitch_invoked)
    /\ srt_written => (align_invoked' = align_invoked)

\* C17: the stages of generate run strictly in sequence: no synthesis call before the
\* validation has succeeded; stitching begins only after synthesis-with-retry has
\* finished for every line, and nothing is synthesized from then on; alignment begins
\* only after the stitch has completed successfully; the SRT and the timeline are
\* written only after align has returned.
C17_StageOrder ==
    /\ [](SynthesisCalled => (pl_pc # "validate" /\ ~ValidationFailed))
    /\ [](stitch_invoked > 0 =>
             /\ Len(synthesis_results) = Len(script_lines)
             /\ \A i \in DOMAIN script_lines : Len(call_log[i]) >= 1
             /\ stitch_invoked = 1)
    /\ [](align_invoked > 0 =>
             /\ stitch_invoked = 1 /\ ~StitchFailed
             /\ Len(pl_provisional) = Len(script_lines)
             /\ align_invoked = 1)
    /\ []((srt_written \/ timeline_written) =>
             (align_invoked = 1 /\ pl_alignment.status = "returned"))
    /\ [][StagesStayDone]_vars

\* a three-line script whose second line needed a retry went through every stage
C17_Witness ==
    /\ pl_pc = "returned"
    /\ Len(script_lines) = 3
    /\ call_log[2] = <<"failed", "ok">>
    /\ stitch_invoked = 1 /\ align_invoked = 1
    /\ srt_written /\ timeline_written

\* align returned its fallback
FellBack == pl_alignment.status = "returned" /\ ~pl_alignment.success

\* C18: a failure of the alignment service does not fail the pipeline: once
\* validation, synthesis and stitching have succeeded and align has fallen back
\* (success = false), generate raises nothing and returns a LessonOutput with one
\* segment per line carrying the provisional start/end and a quality score of
\* exactly 1.0.
C18_AlignFailureTolerated ==
    FellBack =>
        /\ pl_pc \in {"output", "returned"}
        /\ pl_error = NoError
        /\ (pl_pc = "returned") =>
              /\ srt_written /\ timeline_written
              /\ pl_output.status = "returned"
              /\ Len(pl_output.segments) = Len(script_lines)
              /\ \A k \in DOMAIN script_lines \cap DOMAIN pl_output.segments :
                    /\ pl_output.segments[k].id = script_lines[k]
                    /\ pl_output.segments[k].start_ms = pl_provisional[k].start_ms
                    /\ pl_output.segments[k].end_ms = pl_provisional[k].end_ms
              /\ pl_output.quality_score.den > 0
              /\ pl_output.quality_score.num = pl_output.quality_score.den

\* generate returned for a three-line script although align had fallen back
C18_Witness ==
    /\ pl_pc = "returned"
    /\ FellBack
    /\ Len(script_lines) = 3
    /\ Len(pl_output.segments) = 3
    /\ pl_output.segments[3].start_ms = 3100
    /\ pl_output.quality_score = [num |-> 15000, den |-> 15000]

----------------------------------------------------------------------------
(* Properties of the quality score *)

\* the sum over segs[k..] of confidence * (1 - min(abs(drift_ms)/500, 0.5)), in units
\* of 1/5000 (confidence in tenths, the bracket in 1/500)
RECURSIVE WeightedFrom(_, _)
WeightedFrom(segs, k) ==
    IF k > Len(segs) THEN 0
    ELSE segs[k].confidence
            * (IF segs[k].drift_ms >= 250 \/ segs[k].drift_ms <= -250 THEN 250
               ELSE IF segs[k].drift_ms < 0 THEN 500 + segs[k].drift_ms
               ELSE 500 - segs[k].drift_ms)
         + WeightedFrom(segs, k + 1)

RECURSIVE ConfidenceFrom(_, _)
ConfidenceFrom(segs, k) ==
    IF k > Len(segs) THEN 0 ELSE segs[k].confidence + ConfidenceFrom(segs, k + 1)

\* C12: the score of an empty list is 1.0; otherwise it is the mean over the segments
\* of confidence * (1 - min(abs(drift_ms)/500, 0.5)); for confidences in [0,1] it lies
\* in [0,1] and is at least half the mean confidence, whatever the drifts.
C12_QualityScore ==
    qs_pc = "done" =>
        /\ quality_score.den > 0
        /\ qs_segments = <<>> => quality_score.num = quality_score.den
        /\ qs_segments # <<>> =>
              quality_score.num * (5000 * Len(qs_segments))
                 = WeightedFrom(qs_segments, 1) * quality_score.den
        /\ 0 <= quality_score.num /\ quality_score.num <= quality_score.den
        /\ quality_score.num * (20 * Len(qs_segments))
              >= ConfidenceFrom(qs_segments, 1) * quality_score.den

\* two segments of full confidence, one with a drift far beyond the cap: the score is
\* 0.75, not zero
C12_Witness ==
    /\ qs_pc = "done"
    /\ Len(qs_segments) = 2
    /\ qs_segments[1] = [confidence |-> ConfidenceFull, drift_ms |-> -1000]
    /\ qs_segments[2] = [confidence |-> ConfidenceFull, drift_ms |-> 0]
    /\ quality_score.num * 4 = quality_score.den * 3

\* segs with the drift, or the confidence, of segment k replaced
WithDrift(segs, k, d) == [segs EXCEPT ![k].drift_ms = d]
WithConfidence(segs, k, c) == [segs EXCEPT ![k].confidence = c]

\* C13: raising abs(drift_ms) of one segment, the confidences fixed, never raises the
\* score; raising the confidence of one segment, the drifts fixed, never lowers it.
C13_Monotone ==
    qs_pc = "done" =>
        \A k \in DOMAIN qs_segments :
            /\ \A d \in Drifts :
                  Abs(d) >= Abs(qs_segments[k].drift_ms) =>
                     Leq(calculate_quality_score(WithDrift(qs_segments, k, d)), quality_score)
            /\ \A c \in Confidences :
                  c >= qs_segments[k].confidence =>
                     Leq(quality_score, calculate_quality_score(WithConfidence(qs_segments, k, c)))

\* a scored list in which a larger drift of a segment lowers the score strictly, a
\* larger drift of another (beyond the cap) leaves it equal, and a larger confidence
\* raises it strictly
C13_Witness ==
    /\ qs_pc = "done"
    /\ Len(qs_segments) = 2
    /\ qs_segments[1].drift_ms = 100 /\ qs_segments[1].confidence = ConfidenceCorrected
    /\ qs_segments[2].drift_ms = -250
    /\ ~Leq(quality_score, calculate_quality_score(WithDrift(qs_segments, 1, -249)))
    /\ calculate_quality_score(WithDrift(qs_segments, 2, 600)) = quality_score
    /\ ~Leq(calculate_quality_score(WithConfidence(qs_segments, 1, ConfidenceFull)),
            quality_score)

----------------------------------------------------------------------------
(* Properties of the shared transcription model *)

\* the instances any transcribe call has run on
UsedInstances == UNION {ld_used[c] : c \in DOMAIN ld_used}

\* C14: across any number of align calls on one AlignmentService, concurrent callers
\* under any interleaving included, the transcription model is loaded at most once
\* and every call uses that same loaded instance.
C14_LoadedOnce ==
    /\ ld_loads <= 1
    /\ Cardinality(UsedInstances) <= 1

----------------------------------------------------------------------------
(* Properties of the SRT timestamps *)

\* the fields of a formatted timestamp: the text before the comma cut at the colons,
\* and the text after the comma
StampFields(str) == SplitOn(SplitOn(str, <<",">>)[1], <<":">>) \o <<SplitOn(str, <<",">>)[2]>>

AllDigits(str) == \A k \in DOMAIN str : IsDigit(str[k])

\* C16: for ms >= 0, format_timestamp(ms) is HH:MM:SS,mmm with hours = ms div 3600000,
\* minutes in 0..59, seconds in 0..59 and milliseconds in 0..999, zero-padded to 2, 2,
\* 2 and 3 digits, and _parse_timestamp of it gives ms back.
C16_Timestamp ==
    /\ ts_pc \in {"parse", "done"} =>
          /\ Len(SplitOn(ts_text, <<",">>)) = 2
          /\ Len(StampFields(ts_text)) = 4
          /\ \A k \in 1..4 : AllDigits(StampFields(ts_text)[k])
          /\ Len(StampFields(ts_text)[1]) >= 2
          /\ Len(StampFields(ts_text)[1]) > 2 => StampFields(ts_text)[1][1] # "0"
          /\ Len(StampFields(ts_text)[2]) = 2
          /\ Len(StampFields(ts_text)[3]) = 2
          /\ Len(StampFields(ts_text)[4]) = 3
          /\ DigitsValue(StampFields(ts_text)[1]) = ts_ms \div 3600000
          /\ DigitsValue(StampFields(ts_text)[2]) \in 0..59
          /\ DigitsValue(StampFields(ts_text)[3]) \in 0..59
          /\ DigitsValue(StampFields(ts_text)[4]) \in 0..999
    /\ ts_pc = "done" => (ts_parsed.status = "ok" /\ ts_parsed.value = ts_ms)

\* 1 h 2 min 3 s 456 ms is rendered 01:02:03,456 and parsed back
C16_Witness ==
    /\ ts_pc = "done"
    /\ ts_ms = 3723456
    /\ ts_text = <<"0", "1", ":", "0", "2", ":", "0", "3", ",", "4", "5", "6">>
    /\ ts_parsed.status = "ok"
    /\ ts_parsed.value = 3723456

----------------------------------------------------------------------------
(* Properties of the SRT files *)

\* C15: parse_srt(generate_srt(segments)) has, for every segment list, one entry per
\* segment, in order, whose id is the segment's 1-based position and whose start_ms,
\* end_ms and text are the segment's.
C15_RoundTrip ==
    sr_pc = "done" =>
        /\ sr_parsed.status = "ok"
        /\ Len(sr_parsed.segments) = Len(sr_segments)
        /\ \A k \in DOMAIN sr_segments :
              k \in DOMAIN sr_parsed.segments =>
                  /\ sr_parsed.segments[k].id = k
                  /\ sr_parsed.segments[k].start_ms = sr_segments[k].start_ms
                  /\ sr_parsed.segments[k].end_ms = sr_segments[k].end_ms
                  /\ sr_parsed.segments[k].text = sr_segments[k].text

-----------------------------------------------------------------------------
(* Properties of the script validator *)

DuplicateErrors == SelectSeq(vd_errors, LAMBDA e : e.what = "Duplicate line ID")

\* The positions whose id already occurred at an earlier position.
Repeats == {i \in DOMAIN vd_script.lines :
               \E j \in 1..(i - 1) : vd_script.lines[j].id = vd_script.lines[i].id}

\* C23: when validate has returned, there is exactly one duplicate-line-id error for
\* every line whose id occurred earlier in the script, in script order and naming that
\* line and id; validation fails (the error list is not empty) whenever an id repeats,
\* and a script with pairwise distinct ids gets no duplicate-id error.
C23_DuplicateIds ==
    vd_pc = "done" =>
        /\ Len(DuplicateErrors) = Cardinality(Repeats)
        /\ {DuplicateErrors[k].line : k \in DOMAIN DuplicateErrors} = Repeats
        /\ \A k \in DOMAIN DuplicateErrors :
              /\ DuplicateErrors[k].line \in DOMAIN vd_script.lines
              /\ DuplicateErrors[k].id = vd_script.lines[DuplicateErrors[k].line].id
              /\ k + 1 \in DOMAIN DuplicateErrors =>
                    DuplicateErrors[k].line < DuplicateErrors[k + 1].line
        /\ Repeats # {} => vd_errors # <<>>
        /\ Repeats = {} => DuplicateErrors = <<>>

C23_Witness ==
    /\ vd_pc = "done"
    /\ Len(vd_script.lines) = 3
    /\ vd_script.lines[1].id = 1 /\ vd_script.lines[2].id = 2 /\ vd_script.lines[3].id = 1
    /\ vd_script.lines[3].text # <<>>
    /\ Len(DuplicateErrors) = 1
    /\ DuplicateErrors[1].line = 3

-----------------------------------------------------------------------------
(* Properties of Pipeline and Synthesizer *)

\* The engine calls of the run made for the line at position p.
CallsFor(p) == SelectSeq(engine_calls, LAMBDA c : c.line = p)

SynthesisFailed ==
    /\ gn_result # GenNone
    /\ ~gn_result.success
    /\ gn_result.error.type = "SynthesisError"

\* C24: for every line, synthesize_line calls the engine at most max_retries times, each
\* time with the line's text, voice, emotion and speed; only the last call for a line can
\* be a success (no call follows a success); a line that returned has attempts equal to
\* the number of calls made for it, between 1 and max_retries, and its last call
\* succeeded; SynthesisError is raised only after exactly max_retries calls that all failed.
C24_Retries ==
    \A p \in DOMAIN gn_script.lines :
        LET calls == CallsFor(p)
            line == gn_script.lines[p]
        IN /\ Len(calls) <= max_retries
           /\ \A k \in DOMAIN calls :
                 /\ calls[k].text = line.text
                 /\ calls[k].voice = VoiceOf(line)
                 /\ calls[k].emotion = line.emotion
                 /\ calls[k].speed = calls[1].speed
                 /\ calls[k].success => k = Len(calls)
           /\ p \in DOMAIN gn_results =>
                 /\ gn_results[p].line_id = line.id
                 /\ gn_results[p].attempts = Len(calls)
                 /\ gn_results[p].attempts \in 1..max_retries
                 /\ calls[Len(calls)].success
           /\ (calls # <<>> /\ calls[Len(calls)].success) => p \in DOMAIN gn_results
           /\ (SynthesisFailed /\ p = gn_i) =>
                 /\ Len(calls) = max_retries
                 /\ \A k \in DOMAIN calls : ~calls[k].success
                 /\ gn_result.error.attempts = max_retries

C24_Witness ==
    /\ max_retries = 2
    /\ SynthesisFailed
    /\ gn_i = 2
    /\ Len(gn_results) = 1
    /\ gn_results[1].attempts = 2
    /\ Len(engine_calls) = 4
    /\ ~engine_calls[1].success /\ engine_calls[2].success
    /\ ~engine_calls[3].success /\ ~engine_calls[4].success

\* The failed result the handler of generate_from_script returns for a script.
IsFailedResult(r) ==
    /\ r # GenNone
    /\ r.success = FALSE
    /\ r.duration_ms = 0
    /\ r.audio_file = "None"
    /\ r.srt_file = "None"
    /\ r.timeline_file = "None"
    /\ r.lesson_id = gn_script.lesson_id
    /\ r.title = gn_script.title

Exhausted == gn_pc = "retry" /\ attempts >= max_retries

\* A line that has exhausted its retries ends the call at once, with a result.
ExhaustedReturns ==
    Exhausted =>
        /\ gn_pc' = "returned"
        /\ gn_result' # GenNone
        /\ gn_result'.error.type = "SynthesisError"
        /\ UNCHANGED <<engine_calls, gn_results, gn_stitched, gn_exports, gn_i>>

\* C25: when a line exhausts its retries, generate_from_script returns (it does not
\* raise) a PipelineResult with success False, duration_ms 0, no audio, SRT or timeline
\* file and an error naming the failed line; no line after the failed one was
\* synthesized, and neither the stitcher nor any exporter was invoked.
C25_SynthesisFailure ==
    /\ [](SynthesisFailed =>
             /\ gn_pc = "returned"
             /\ gn_i \in DOMAIN gn_script.lines
             /\ IsFailedResult(gn_result)
             /\ gn_result.error.line_id = gn_script.lines[gn_i].id
             /\ \A c \in DOMAIN engine_calls : engine_calls[c].line <= gn_i
             /\ Len(gn_results) = gn_i - 1
             /\ gn_stitched = GenNone
             /\ gn_exports = 0)
    /\ [][ExhaustedReturns]_vars

C25_Witness ==
    /\ gn_pc = "returned"
    /\ SynthesisFailed
    /\ Len(gn_script.lines) = 2
    /\ gn_i = 1
    /\ max_retries = 2
    /\ Len(engine_calls) = 2
    /\ gn_result.error.line_id = gn_script.lines[1].id
    /\ gn_results = <<>>
    /\ gn_stitched = GenNone
    /\ gn_exports = 0

\* C27: every run entered through generate stitches with the initial_silence_ms and
\* default_pause_ms of its own script's settings block, and with the configured
\* defaults when the script has no settings block, whatever ran before.
C27_OwnSettings ==
    (gn_entry = "generate" /\ gn_stitched # GenNone) =>
        /\ gn_stitched.initial_silence_ms =
               (IF gn_script.settings.present
                THEN gn_script.settings.initial_silence_ms
                ELSE ConfigInitialSilence)
        /\ gn_stitched.default_pause_ms =
               (IF gn_script.settings.present
                THEN gn_script.settings.default_pause_ms
                ELSE ConfigDefaultPause)

-----------------------------------------------------------------------------
(* Properties of the drift decision *)

\* C30: the decision depends only on the magnitude of the boundary deltas: for the
\* negated deltas the decision (adopt or keep) and the confidence are the same and
\* drift_ms has the same absolute value.
C30_SignSymmetric ==
    dc_pc = "done" =>
        /\ dc_negated.use_aligned = dc_decision.use_aligned
        /\ dc_negated.confidence = dc_decision.confidence
        /\ Abs(dc_negated.drift_ms) = Abs(dc_decision.drift_ms)

============================================================================
